---- MODULE Spec2Model ----
(***************************************************************************)
(* Order placement and status transitions of the coffee-store service.     *)
(*                                                                         *)
(* Every HTTP request is a process that runs its handler inside one        *)
(* database transaction opened by get_db (app/db.py): the handler's        *)
(* statements are flushed into the transaction (tx) and become visible to  *)
(* other requests only at the commit that follows the handler's return; an *)
(* exception or an HTTPException rolls the transaction back.  The engine   *)
(* is created without an isolation level, so PostgreSQL runs READ          *)
(* COMMITTED: every SELECT reads the rows committed at that moment.        *)
(***************************************************************************)
EXTENDS Integers, Sequences, FiniteSets, TLC

\* ------------------------------------------------------------------ bounds
MaxReqs == 3                      \* number of HTTP requests in one behaviour

Procs == 1..MaxReqs               \* request p; a row inserted by p gets id p
OrderIds == 1..MaxReqs            \* uuid4 primary keys: one fresh id per request
NULL == 0                         \* SQL NULL / Python None for an id column

\* ----------------------------------------------------------------- catalog
\* products.base_price_cents and product_variations.(product_id,
\* price_change_cents): Espresso/Double Shot as the test fixtures create
\* them, Latte/Pumpkin Spice as the seed script does.
Products == [espresso |-> 300, latte |-> 400]

Variations ==
    [double |-> [product_id |-> "espresso", price_change_cents |-> 100],
     pumpkin_spice |-> [product_id |-> "latte", price_change_cents |-> 50]]

ProductIds == DOMAIN Products
VariationIds == DOMAIN Variations

\* The committed rows of the products table: base_price_cents by product id.
\* Every SELECT of a handler reads them as committed at that moment.
VARIABLE products

\* the lookup by variation id alone, whatever product the line names
get_variation_by_id_only(product_id, variation_id) ==
    IF variation_id \in VariationIds
    THEN {Variations[variation_id]}
    ELSE {}

\* ProductRepository.get_variation_for_product: the variation row with this
\* id AND this product_id, as a set of at most one row (scalar_one_or_none).
get_variation_for_product(product_id, variation_id) ==
    IF /\ variation_id \in VariationIds
       /\ Variations[variation_id].product_id = product_id
    THEN {Variations[variation_id]}
    ELSE {}

\* the price change of the variation left out
UnitPriceBaseOnly(var) == products[var.product_id]

\* order_service.py:49-50, var.product is the product row of the variation
UnitPrice(var) == products[var.product_id] + var.price_change_cents

\* the quantity left out
LineTotalOfOne(quantity, unit_cents) == unit_cents

\* order_service.py:51
LineTotal(quantity, unit_cents) == quantity * unit_cents

\* validate_and_compute_total: walks the cart in order; the first line whose
\* variation does not resolve raises ValueError naming that line's pair
\* (ok = FALSE, nothing else returned); otherwise
\* (total_cents, [(product, variation, qty, unit)]).
RECURSIVE ComputeFrom(_, _, _, _)
ComputeFrom(items, i, total, result_items) ==
    IF i > Len(items)
    THEN [ok |-> TRUE, total_cents |-> total, computed |-> result_items,
          offending |-> <<>>]
    ELSE LET it == items[i]
             var == get_variation_for_product(it.product_id, it.variation_id)
         IN IF var = {}
            THEN [ok |-> FALSE, total_cents |-> 0, computed |-> <<>>,
                  offending |-> <<it.product_id, it.variation_id>>]
            ELSE LET v == CHOOSE x \in var : TRUE
                     unit_cents == UnitPrice(v)
                     line == LineTotal(it.quantity, unit_cents)
                 IN ComputeFrom(items, i + 1, total + line,
                        Append(result_items,
                               [product_id |-> it.product_id,
                                variation_id |-> it.variation_id,
                                quantity |-> it.quantity,
                                unit_price_cents |-> unit_cents]))

validate_and_compute_total(items) == ComputeFrom(items, 1, 0, <<>>)

\* ------------------------------------------------------------ order status
OrderStatus == {"waiting", "preparation", "ready", "delivered"}

\* OrderStatus.next_allowed (models/order.py:21-31): the member after
\* current in the list, nothing for the last one and for a value that is not
\* in the list.
next_allowed(current) ==
    LET order == <<"waiting", "preparation", "ready", "delivered">>
        found == {i \in 1..Len(order) : order[i] = current}
    IN IF found = {} THEN {}
       ELSE LET i == CHOOSE k \in found : \A j \in found : k <= j
            IN IF i + 1 <= Len(order) THEN {order[i + 1]} ELSE {}

\* a table in which delivered goes back to waiting
VALID_TRANSITIONS_cyclic(status) ==
    CASE status = "waiting"     -> {"preparation"}
      [] status = "preparation" -> {"ready"}
      [] status = "ready"       -> {"delivered"}
      [] status = "delivered"   -> {"waiting"}
      [] OTHER                  -> {}

\* VALID_TRANSITIONS.get(status): the allowed next status, or nothing.
VALID_TRANSITIONS(status) ==
    CASE status = "waiting"     -> {"preparation"}
      [] status = "preparation" -> {"ready"}
      [] status = "ready"       -> {"delivered"}
      [] OTHER                  -> {}

\* ------------------------------------------------------------- idempotency
NoToken == ""                     \* header absent or empty: both are falsy

\* a token in the usual form of a UUID, 36 characters
LongToken == "3f2b8c1e-9a4d-4e6f-8b7a-1c5d2e9f0a4b"

\* any header counts as a token, the empty one too
HasTokenAlways(idempotency_key) == TRUE

\* order_service.py:73 and 106, "if idempotency_key:"
HasToken(idempotency_key) == idempotency_key # NoToken

\* one digest for every token
hash_key_constant(key) == "sha256-5f1d"

\* hash_key: sha256 hex digest of the token.  A digest is an opaque value of
\* another domain than the tokens; distinct tokens have distinct digests.
hash_key(key) ==
    CASE key = "k1" -> "sha256-5f1d"
      [] key = "k2" -> "sha256-a3c9"
      [] key = LongToken -> "sha256-c7d2"
      [] OTHER      -> "sha256-e3b0"

\* idempotency_repo.py:39, key_preview[:32]: the first 32 characters, which
\* are the whole token when it has no more than 32.
key_preview_of(key) ==
    CASE key = LongToken -> "3f2b8c1e-9a4d-4e6f-8b7a-1c5d2e9f"
      [] OTHER           -> key

\* idempotency_repo.py:14
IDEMPOTENCY_TTL_HOURS == 24

\* -------------------------------------------------------- external services
\* What the payment gateway / notification service can do with one POST: answer
\* with a status code, or make httpx raise (timeout, connection error).
GatewayOutcomes ==
    {[kind |-> "response", status_code |-> c] : c \in {200, 300, 402}}
        \cup {[kind |-> "exception", status_code |-> 0]}

DispatcherOutcomes ==
    {[kind |-> "response", status_code |-> c] : c \in {200, 500}}
        \cup {[kind |-> "exception", status_code |-> 0]}

\* the POST's failure passed on as it is, with no status of its own
request_payment_unconverted(outcome) ==
    [status_code |-> outcome.status_code, body |-> "json"]

\* request_payment: (resp.status_code, body), or (500, {"error": ...}) when
\* the POST raises.
request_payment(outcome) ==
    IF outcome.kind = "exception"
    THEN [status_code |-> 500, body |-> "error"]
    ELSE [status_code |-> outcome.status_code, body |-> "json"]

\* send_notification: same shape as request_payment.
send_notification(outcome) ==
    IF outcome.kind = "exception"
    THEN [status_code |-> 500, body |-> "error"]
    ELSE [status_code |-> outcome.status_code, body |-> "json"]

\* the test without its upper bound
PaymentFailedLowerOnly(status_code) == status_code < 200

\* the test with 300 taken for a success
PaymentFailedInclusive(status_code) == status_code < 200 \/ status_code > 300

\* order_service.py:83, the test that aborts the placement.
PaymentFailed(status_code) == status_code < 200 \/ status_code >= 300

\* ------------------------------------------------------------------- state
VARIABLES
    db,            \* committed rows of every table
    pc,            \* pc[p]: where request p is in its handler
    req,           \* req[p]: the request p carries
    loc,           \* loc[p]: local variables of the handler
    tx,            \* tx[p]: rows p has flushed but not committed
    resp,          \* resp[p]: the HTTP response p received
    gatewayCalls,  \* POSTs received by the payment gateway
    dispatchCalls, \* POSTs received by the notification service
    now            \* datetime.now(timezone.utc), in hours

vars ==
    <<db, pc, req, loc, tx, resp, gatewayCalls, dispatchCalls, now, products>>

EmptyTable == [x \in {} |-> 0]

EmptyDb ==
    [orders |-> EmptyTable, order_items |-> EmptyTable, payments |-> EmptyTable,
     idempotency_keys |-> EmptyTable, notifications |-> EmptyTable]

NoRequest ==
    [kind |-> "none", customer_id |-> "", token |-> NoToken, items |-> <<>>,
     total_cents |-> {}, order_id |-> NULL, status |-> ""]

NoLocals ==
    [total_cents |-> 0, computed |-> <<>>, existing |-> {},
     status_code |-> 0, response_body |-> "", payment_id |-> NULL,
     order_status |-> "",
     \* history, set when the request starts: the orders already committed
     \* for its token, whether a charge for its token has already failed, the
     \* status its order had, the advances of its order then in flight
     prior_orders |-> {}, prior_failed |-> FALSE, prior_status |-> "",
     overlaps |-> {},
     \* whether the record of its token was past its expiry
     prior_expired |-> FALSE,
     \* for a read, the products table when it was made
     prior_products |-> EmptyTable]

\* code and detail of the answer; for an order body (OrderResponse) its id,
\* payment id, status, total and items; for an error what its detail names.
NoResponse ==
    [code |-> 0, detail |-> "", order_id |-> NULL, payment_id |-> NULL,
     status |-> "", total_cents |-> 0, items |-> <<>>,
     current |-> "", allowed |-> "", offending |-> <<>>,
     computed |-> {}, received |-> {}, is_replay |-> FALSE]

Init ==
    /\ products = Products
    /\ db = EmptyDb
    /\ pc = [p \in Procs |-> "idle"]
    /\ req = [p \in Procs |-> NoRequest]
    /\ loc = [p \in Procs |-> NoLocals]
    /\ tx = [p \in Procs |-> EmptyDb]
    /\ resp = [p \in Procs |-> NoResponse]
    /\ gatewayCalls = {}
    /\ dispatchCalls = {}
    /\ now = 0

\* ---------------------------------------------------------------- requests
EspressoCart ==
    <<[product_id |-> "espresso", variation_id |-> "double", quantity |-> 2]>>

\* the variation exists but belongs to latte, not to espresso
MismatchedCart ==
    <<[product_id |-> "espresso", variation_id |-> "pumpkin_spice",
       quantity |-> 1]>>

\* another cart that the catalog prices
LatteCart ==
    <<[product_id |-> "latte", variation_id |-> "pumpkin_spice",
       quantity |-> 1]>>

PlaceRequest(customer_id, token, items, total_cents) ==
    [kind |-> "place", customer_id |-> customer_id, token |-> token,
     items |-> items, total_cents |-> total_cents,
     order_id |-> NULL, status |-> ""]

\* POST /orders bodies: OrderCreate(items, total_cents) + Idempotency-Key.
\* total_cents is Optional[int]: {} is an absent field.
PlaceRequests ==
    {PlaceRequest("alice", t, EspressoCart, {}) : t \in {NoToken, "k1"}}
        \cup {PlaceRequest("alice", NoToken, MismatchedCart, {}),
              PlaceRequest("alice", "k1", EspressoCart, {5000})}

AdvanceRequest(order_id, status) ==
    [kind |-> "advance", customer_id |-> "", token |-> NoToken,
     items |-> <<>>, total_cents |-> {}, order_id |-> order_id,
     status |-> status]

\* PATCH /orders/{order_id}/status bodies: OrderStatusUpdate(status: str),
\* any string.  Orders are created in "waiting", so for the orders that
\* placements create the next status, a later one and an unknown one are the
\* three kinds of target; the orders of the first two requests are the targets.
AdvanceRequests ==
    {AdvanceRequest(o, s) :
        o \in {1, 2}, s \in {"preparation", "ready", "cancelled"}}

\* every target status, for orders in any status
AnyAdvanceRequests ==
    {AdvanceRequest(o, s) : o \in {1, 2}, s \in OrderStatus \cup {"cancelled"}}

\* target strings of any kind: a status, another word, another case, the
\* empty string, words that occur in an error message
StatusStrings ==
    {"preparation", "cancelled", "WAITING", "Delivered", "", "Not Found"}

StringAdvanceRequests ==
    {AdvanceRequest(o, s) : o \in {1, 2}, s \in StatusStrings}

\* the target strings of all the advance requests
RequestStatusStrings ==
    {r.status : r \in AdvanceRequests \cup AnyAdvanceRequests
                        \cup StringAdvanceRequests}

\* ----------------------------------------------------------- transactions
\* the order rows made durable on their own, the other tables left behind
MergeOrdersOnly(new, old) ==
    [orders |-> new.orders @@ old.orders,
     order_items |-> old.order_items,
     payments |-> old.payments,
     idempotency_keys |-> old.idempotency_keys,
     notifications |-> old.notifications]

\* Rows of new over the rows of old, table by table.
Merge(new, old) ==
    [orders |-> new.orders @@ old.orders,
     order_items |-> new.order_items @@ old.order_items,
     payments |-> new.payments @@ old.payments,
     idempotency_keys |-> new.idempotency_keys @@ old.idempotency_keys,
     notifications |-> new.notifications @@ old.notifications]

\* get_db: the handler returned; session.commit().
Commit(p, response) ==
    /\ db' = Merge(tx[p], db)
    /\ tx' = [tx EXCEPT ![p] = EmptyDb]
    /\ pc' = [pc EXCEPT ![p] = "done"]
    /\ resp' = [resp EXCEPT ![p] = response]

\* get_db: the handler raised; session.rollback().
Rollback(p, response) ==
    /\ db' = db
    /\ tx' = [tx EXCEPT ![p] = EmptyDb]
    /\ pc' = [pc EXCEPT ![p] = "done"]
    /\ resp' = [resp EXCEPT ![p] = response]

\* Requests take the slots in order: which slot a request gets is immaterial.
SlotFree(p) == pc[p] = "idle" /\ \A q \in Procs : q < p => pc[q] # "idle"

\* The gateway contract: a status in [200,300) is a successful charge.
InSuccessRange(status_code) == status_code \in 200..299

\* The gateway answered the charge of request q with such a status.
ChargedOk(q) ==
    \E c \in gatewayCalls : c.proc = q /\ InSuccessRange(c.status_code)

ChargedFailed(q) ==
    \E c \in gatewayCalls : c.proc = q /\ ~InSuccessRange(c.status_code)

\* Orders that requests carrying this token have committed.
OrdersOfToken(token) ==
    {o \in DOMAIN db.orders : req[o].kind = "place" /\ req[o].token = token}

\* --------------------------------------------------------------- placement
\* a lookup that leaves out the rows past their expiry
find_unexpired_by_key(key_hash) ==
    IF /\ key_hash \in DOMAIN db.idempotency_keys
       /\ now <= db.idempotency_keys[key_hash].expires_at
    THEN {db.idempotency_keys[key_hash]}
    ELSE {}

\* IdempotencyRepository.find_by_key: the committed row, if any.
find_by_key(key_hash) ==
    IF key_hash \in DOMAIN db.idempotency_keys
    THEN {db.idempotency_keys[key_hash]}
    ELSE {}

\* no record counts as used
IsReplayNever(existing) == FALSE

\* order_service.py:76, "existing and existing.order_id"
IsReplay(existing) == \E row \in existing : row.order_id # NULL

\* an order row with another column default
NewOrderInPreparation(id, customer_id, total_cents) ==
    [id |-> id, customer_id |-> customer_id, status |-> "preparation",
     total_cents |-> total_cents]

\* Order(customer_id, total_cents, metadata_) with the column default of
\* status.
NewOrder(id, customer_id, total_cents) ==
    [id |-> id, customer_id |-> customer_id, status |-> "waiting",
     total_cents |-> total_cents]

\* the comparison that rejects only a declared total below the computed one
TotalMismatchIfLower(total_cents, total_computed) ==
    \E declared \in total_cents : declared < total_computed

\* orders.py:103, "body.total_cents is not None and body.total_cents !=
\* total_computed"
TotalMismatch(total_cents, total_computed) ==
    total_cents # {} /\ total_cents # {total_computed}

\* the declared total compared before the pricing error is looked at
PlacementErrorTotalFirst(v, total_cents) ==
    IF TotalMismatch(total_cents, v.total_cents) THEN 409
    ELSE IF ~v.ok THEN 400
    ELSE 0

\* place_order, lines 99-107: the status of the HTTPException raised, 0 when
\* none is.  The ValueError of the pricing is caught first.
PlacementError(v, total_cents) ==
    IF ~v.ok THEN 400
    ELSE IF TotalMismatch(total_cents, v.total_cents) THEN 409
    ELSE 0

\* place_order, lines 99-107: price the cart, compare the declared total.
PriceAndCompare(p, r) ==
    LET v == validate_and_compute_total(r.items)
        error == PlacementError(v, r.total_cents)
    IN
    /\ req' = [req EXCEPT ![p] = r]
    /\ loc' = [loc EXCEPT ![p] =
            [NoLocals EXCEPT
                !.prior_orders =
                    IF r.token = NoToken THEN {} ELSE OrdersOfToken(r.token),
                !.prior_expired =
                    /\ r.token # NoToken
                    /\ hash_key(r.token) \in DOMAIN db.idempotency_keys
                    /\ now > db.idempotency_keys[hash_key(r.token)].expires_at,
                !.prior_failed =
                    \E q \in Procs : /\ req[q].kind = "place"
                                     /\ req[q].token = r.token
                                     /\ r.token # NoToken
                                     /\ pc[q] = "done"
                                     /\ ChargedFailed(q)]]
    /\ IF error = 400
       THEN Rollback(p, [NoResponse EXCEPT !.code = 400,
                            !.detail = "Invalid product_id or variation_id",
                            !.offending = v.offending])
       ELSE IF error = 409
       THEN Rollback(p, [NoResponse EXCEPT !.code = 409,
                            !.detail = "Total mismatch",
                            !.computed = {v.total_cents},
                            !.received = r.total_cents])
       ELSE /\ pc' = [pc EXCEPT ![p] = "check"]
            /\ UNCHANGED <<db, tx, resp>>
    /\ UNCHANGED <<gatewayCalls, dispatchCalls, now, products>>

BeginPlace(p) ==
    /\ SlotFree(p)
    /\ \E r \in PlaceRequests : PriceAndCompare(p, r)

\* create_order_with_payment, lines 69-79, and for a replay the rest of
\* place_order (lines 111-120): the order is read back and returned with 200.
CheckIdempotency(p) ==
    /\ pc[p] = "check"
    /\ LET v == validate_and_compute_total(req[p].items)
           existing == IF HasToken(req[p].token)
                       THEN find_by_key(hash_key(req[p].token))
                       ELSE {}
       IN IF ~v.ok
          THEN \* ValueError out of the service: not caught by place_order
               /\ Rollback(p, [NoResponse EXCEPT !.code = 500,
                                !.detail = "Internal Server Error"])
               /\ loc' = loc
          ELSE IF IsReplay(existing)
          THEN LET row == CHOOSE x \in existing : TRUE
                   oid == row.order_id
               IN /\ IF oid \in DOMAIN db.orders
                     THEN Commit(p, [NoResponse EXCEPT
                            !.code = 200, !.detail = "replay",
                            !.order_id = oid,
                            !.payment_id =
                                IF oid \in DOMAIN db.payments
                                THEN db.payments[oid].id ELSE NULL,
                            !.status = db.orders[oid].status,
                            !.total_cents = db.orders[oid].total_cents,
                            !.items = db.order_items[oid],
                            !.is_replay = TRUE])
                     ELSE Rollback(p, [NoResponse EXCEPT !.code = 502,
                            !.detail = "Payment succeeded but order not created"])
                  /\ loc' = loc
          ELSE /\ pc' = [pc EXCEPT ![p] = "pay"]
               /\ loc' = [loc EXCEPT ![p].total_cents = v.total_cents,
                                     ![p].computed = v.computed]
               /\ UNCHANGED <<db, tx, resp>>
    /\ UNCHANGED <<req, gatewayCalls, dispatchCalls, now, products>>

\* create_order_with_payment, lines 82-84.  The failure branch returns a
\* 3-tuple; place_order unpacks four values (orders.py:108), so the failure
\* surfaces as an unhandled ValueError: rollback, 500.
RequestPayment(p) ==
    /\ pc[p] = "pay"
    /\ \E outcome \in GatewayOutcomes :
         LET r == request_payment(outcome) IN
         /\ gatewayCalls' = gatewayCalls \cup
                {[proc |-> p, value |-> loc[p].total_cents,
                  kind |-> outcome.kind,
                  status_code |-> r.status_code, body |-> r.body]}
         /\ loc' = [loc EXCEPT ![p].status_code = r.status_code,
                               ![p].response_body = r.body]
         /\ IF PaymentFailed(r.status_code)
            THEN Rollback(p, [NoResponse EXCEPT !.code = 500,
                                !.detail = "Internal Server Error"])
            ELSE /\ pc' = [pc EXCEPT ![p] = "create"]
                 /\ UNCHANGED <<db, tx, resp>>
    /\ UNCHANGED <<req, dispatchCalls, now, products>>

\* create_order_with_payment, lines 87-108: INSERT the order (flush in
\* OrderRepository.create), add items and payment to the session, look the
\* key up again.  Without a token, line 115 flushes items and payment.
OrderItems(p) ==
    [i \in 1..Len(loc[p].computed) |->
        [order_id |-> p,
         product_id |-> loc[p].computed[i].product_id,
         variation_id |-> loc[p].computed[i].variation_id,
         quantity |-> loc[p].computed[i].quantity,
         unit_price_cents |-> loc[p].computed[i].unit_price_cents]]

PaymentRowInDollars(p) ==
    [id |-> p, order_id |-> p, amount_cents |-> loc[p].total_cents \div 100,
     request_payload |-> loc[p].total_cents,
     response_status_code |-> loc[p].status_code,
     response_payload |-> loc[p].response_body]

PaymentRow(p) ==
    [id |-> p, order_id |-> p, amount_cents |-> loc[p].total_cents,
     request_payload |-> loc[p].total_cents,
     response_status_code |-> loc[p].status_code,
     response_payload |-> loc[p].response_body]

CreateOrder(p) ==
    /\ pc[p] = "create"
    /\ LET order == NewOrder(p, req[p].customer_id, loc[p].total_cents) IN
       IF ~HasToken(req[p].token)
       THEN /\ tx' = [tx EXCEPT ![p].orders = (p :> order),
                                ![p].order_items = (p :> OrderItems(p)),
                                ![p].payments = (p :> PaymentRow(p))]
            /\ loc' = [loc EXCEPT ![p].payment_id = p]
            /\ pc' = [pc EXCEPT ![p] = "commit"]
       ELSE /\ tx' = [tx EXCEPT ![p].orders = (p :> order)]
            /\ loc' = [loc EXCEPT ![p].existing =
                            find_by_key(hash_key(req[p].token))]
            /\ pc' = [pc EXCEPT ![p] = "link"]
    /\ UNCHANGED <<db, req, resp, gatewayCalls, dispatchCalls, now, products>>

\* No other open transaction has written the row of this key: an INSERT of
\* the same key_hash (unique index) or an UPDATE of the row waits for it.
KeyRowFree(p, key_hash) ==
    \A q \in Procs \ {p} : key_hash \notin DOMAIN tx[q].idempotency_keys

\* IdempotencyRepository.create_key: the digest, the first 32 characters of
\* the token, no order and no payment yet, expiry 24 hours from now.
NewKeyRow(key_hash, key_preview) ==
    [key_hash |-> key_hash, key_preview |-> key_preview_of(key_preview),
     order_id |-> NULL, payment_id |-> NULL,
     expires_at |-> now + IDEMPOTENCY_TTL_HOURS]

\* the link left out: the row stays as created
link_left_out(key_row, order_id, payment_id) == key_row

\* IdempotencyRepository.link_order_and_payment
link_order_and_payment(key_row, order_id, payment_id) ==
    [key_row EXCEPT !.order_id = order_id, !.payment_id = payment_id]

\* create_order_with_payment, lines 109-115.
\*  existing row: it is linked to this order; the payment has not been
\*    flushed yet, so payment.id (a default applied at INSERT) is still None;
\*    the flush of line 115 then writes items, payment and the UPDATE.
\*  no row: create_key flushes items, payment (its id is now set) and the
\*    INSERT of the key, which fails on the unique index when a row of this
\*    hash has been committed since the lookup (IntegrityError, not caught:
\*    rollback, 500); then the row is linked and line 115 flushes the UPDATE.
LinkIdempotency(p) ==
    /\ pc[p] = "link"
    /\ LET key_hash == hash_key(req[p].token) IN
       /\ KeyRowFree(p, key_hash)
       /\ IF loc[p].existing # {}
          THEN LET existing == CHOOSE x \in loc[p].existing : TRUE IN
               /\ tx' = [tx EXCEPT
                    ![p].order_items = (p :> OrderItems(p)),
                    ![p].payments = (p :> PaymentRow(p)),
                    ![p].idempotency_keys =
                        (key_hash :> link_order_and_payment(existing, p, NULL))]
               /\ loc' = [loc EXCEPT ![p].payment_id = p]
               /\ pc' = [pc EXCEPT ![p] = "commit"]
               /\ UNCHANGED <<db, resp>>
          ELSE IF key_hash \in DOMAIN db.idempotency_keys
          THEN /\ Rollback(p, [NoResponse EXCEPT !.code = 500,
                                !.detail = "Internal Server Error"])
               /\ loc' = loc
          ELSE /\ tx' = [tx EXCEPT
                    ![p].order_items = (p :> OrderItems(p)),
                    ![p].payments = (p :> PaymentRow(p)),
                    ![p].idempotency_keys =
                        (key_hash :> link_order_and_payment(
                            NewKeyRow(key_hash, req[p].token), p, p))]
               /\ loc' = [loc EXCEPT ![p].payment_id = p]
               /\ pc' = [pc EXCEPT ![p] = "commit"]
               /\ UNCHANGED <<db, resp>>
    /\ UNCHANGED <<req, gatewayCalls, dispatchCalls, now, products>>

\* place_order, lines 111-120, then the commit of get_db: 201 with the order
\* read back inside the transaction.
CommitPlacement(p) ==
    /\ pc[p] = "commit"
    /\ req[p].kind = "place"
    /\ Commit(p, [NoResponse EXCEPT !.code = 201, !.detail = "created",
                    !.order_id = p, !.payment_id = loc[p].payment_id,
                    !.status = tx[p].orders[p].status,
                    !.total_cents = tx[p].orders[p].total_cents,
                    !.items = tx[p].order_items[p]])
    /\ UNCHANGED <<req, loc, gatewayCalls, dispatchCalls, now, products>>

\* ------------------------------------------------------------------ advance
\* str.lower on the letters A to Z; every other character is kept.
UpperToLower ==
    [c \in {"A", "B", "C", "D", "E", "F", "G", "H", "I", "J", "K", "L", "M",
            "N", "O", "P", "Q", "R", "S", "T", "U", "V", "W", "X", "Y", "Z"} |->
        CASE c = "A" -> "a" [] c = "B" -> "b" [] c = "C" -> "c" [] c = "D" -> "d"
          [] c = "E" -> "e" [] c = "F" -> "f" [] c = "G" -> "g" [] c = "H" -> "h"
          [] c = "I" -> "i" [] c = "J" -> "j" [] c = "K" -> "k" [] c = "L" -> "l"
          [] c = "M" -> "m" [] c = "N" -> "n" [] c = "O" -> "o" [] c = "P" -> "p"
          [] c = "Q" -> "q" [] c = "R" -> "r" [] c = "S" -> "s" [] c = "T" -> "t"
          [] c = "U" -> "u" [] c = "V" -> "v" [] c = "W" -> "w" [] c = "X" -> "x"
          [] c = "Y" -> "y" [] c = "Z" -> "z"]

RECURSIVE lower(_)
lower(s) ==
    IF Len(s) = 0 THEN ""
    ELSE LET c == SubSeq(s, 1, 1)
         IN (IF c \in DOMAIN UpperToLower THEN UpperToLower[c] ELSE c)
                \o lower(SubSeq(s, 2, Len(s)))

\* Python's `t in s` on strings: t occurs in s as a substring.
Contains(s, t) ==
    \E i \in 1..(Len(s) - Len(t) + 1) : SubSeq(s, i, i + Len(t) - 1) = t

\* order_service.py:131, the message for a string that is no status; it
\* repeats the string that was sent.
InvalidStatusMessage(new_status_str) ==
    "Invalid status: " \o new_status_str
        \o ". Allowed: waiting, preparation, ready, delivered."

\* order_service.py:139-142, the message for a refused transition.
InvalidTransitionMessage(current, allowed) ==
    "Invalid transition: current status is " \o current
        \o ", only next allowed is " \o allowed \o "."

\* api/orders.py:159-162, update_status: an error message that contains
\* "not found" in any case is answered 404, every other one 400.
ErrorStatusCode(err) ==
    IF Contains(lower(err), "not found") THEN 404 ELSE 400

\* update_status applied to each message of the service, worked out once.
AllowedText(current) ==
    IF VALID_TRANSITIONS(current) = {} THEN "none"
    ELSE CHOOSE a \in VALID_TRANSITIONS(current) : TRUE

NotFoundCode == ErrorStatusCode("Order not found")

InvalidTransitionCode ==
    LET code(current) ==
            ErrorStatusCode(InvalidTransitionMessage(current, AllowedText(current)))
    IN {<<current, code(current)>> : current \in OrderStatus}

InvalidStatusCode ==
    LET code(new_status_str) ==
            ErrorStatusCode(InvalidStatusMessage(new_status_str))
    IN {<<s, code(s)>> : s \in RequestStatusStrings}

CodeIn(table, key) == CHOOSE c \in {404, 400} : <<key, c>> \in table

\* order_service.py:129, OrderStatus(new_status_str): the lookup of an enum
\* member by its value, which is exact.
ParsesAsStatus(new_status_str) == new_status_str \in OrderStatus

\* update_order_status_and_notify, lines 128-131: OrderStatus(new_status_str)
\* raises ValueError for a string that is no status: 400.
ParseStatus(p, r) ==
    /\ req' = [req EXCEPT ![p] = r]
    /\ loc' = [loc EXCEPT ![p] =
            [NoLocals EXCEPT
                !.prior_status =
                    IF r.order_id \in DOMAIN db.orders
                    THEN db.orders[r.order_id].status ELSE "",
                !.overlaps =
                    {q \in Procs : /\ req[q].kind = "advance"
                                   /\ req[q].order_id = r.order_id
                                   /\ pc[q] \in {"lock", "notify", "commit"}}]]
    /\ IF ~ParsesAsStatus(r.status)
       THEN Rollback(p, [NoResponse EXCEPT
                            !.code = CodeIn(InvalidStatusCode, r.status),
                            !.detail = "Invalid status"])
       ELSE /\ pc' = [pc EXCEPT ![p] = "lock"]
            /\ UNCHANGED <<db, tx, resp>>
    /\ UNCHANGED <<gatewayCalls, dispatchCalls, now, products>>

BeginAdvance(p) ==
    /\ SlotFree(p)
    /\ \E r \in AdvanceRequests : ParseStatus(p, r)

\* The row lock of SELECT ... FOR UPDATE is held from the locking read to
\* the end of the transaction.
HoldsOrderLock(q, order_id) ==
    /\ req[q].kind = "advance"
    /\ req[q].order_id = order_id
    /\ pc[q] \in {"notify", "commit"}

\* OrderRepository.get_by_id_for_update waits while another transaction
\* holds the lock of the row.
RowLockFree(p, order_id) ==
    \A q \in Procs \ {p} : ~HoldsOrderLock(q, order_id)

\* the test written as "allowed and allowed != new_status": nothing is
\* rejected when the status has no successor
TransitionRejectedUnlessTerminal(allowed, new_status) ==
    allowed # {} /\ allowed # {new_status}

\* order_service.py:138
TransitionRejected(allowed, new_status) == allowed # {new_status}

\* update_order_status_and_notify, lines 133-145: locking read, not found,
\* the transition test.  Line 144 calls OrderRepository.update_status, an
\* async def, without await: the coroutine object is dropped and its body
\* (order.status = new_status) never runs, so the flush of line 145 has
\* nothing to write.
LockAndValidateUpdatingAll(p) ==
    /\ pc[p] = "lock"
    /\ LET oid == req[p].order_id
           new_status == req[p].status
       IN /\ RowLockFree(p, oid)
          /\ IF oid \notin DOMAIN db.orders
             THEN /\ Rollback(p, [NoResponse EXCEPT
                                    !.code = NotFoundCode,
                                    !.detail = "Order not found"])
                  /\ loc' = loc
             ELSE LET order == db.orders[oid]
                      allowed == VALID_TRANSITIONS(order.status)
                  IN IF TransitionRejected(allowed, new_status)
                     THEN /\ Rollback(p, [NoResponse EXCEPT
                                !.code = CodeIn(InvalidTransitionCode,
                                                order.status),
                                !.detail = "Invalid transition",
                                !.current = order.status,
                                !.allowed =
                                    IF allowed = {} THEN "none"
                                    ELSE CHOOSE a \in allowed : TRUE])
                          /\ loc' = [loc EXCEPT ![p].order_status = order.status]
                     ELSE /\ pc' = [pc EXCEPT ![p] = "notify"]
                          /\ loc' = [loc EXCEPT ![p].order_status = order.status]
                          /\ tx' = [tx EXCEPT ![p].orders =
                                [o \in DOMAIN db.orders |->
                                    [db.orders[o] EXCEPT !.status = new_status]]]
                          /\ UNCHANGED <<db, resp>>
    /\ UNCHANGED <<req, gatewayCalls, dispatchCalls, now, products>>

LockAndValidate(p) ==
    /\ pc[p] = "lock"
    /\ LET oid == req[p].order_id
           new_status == req[p].status
       IN /\ RowLockFree(p, oid)
          /\ IF oid \notin DOMAIN db.orders
             THEN /\ Rollback(p, [NoResponse EXCEPT
                                    !.code = NotFoundCode,
                                    !.detail = "Order not found"])
                  /\ loc' = loc
             ELSE LET order == db.orders[oid]
                      allowed == VALID_TRANSITIONS(order.status)
                  IN IF TransitionRejected(allowed, new_status)
                     THEN /\ Rollback(p, [NoResponse EXCEPT
                                !.code = CodeIn(InvalidTransitionCode,
                                                order.status),
                                !.detail = "Invalid transition",
                                !.current = order.status,
                                !.allowed =
                                    IF allowed = {} THEN "none"
                                    ELSE CHOOSE a \in allowed : TRUE])
                          /\ loc' = [loc EXCEPT ![p].order_status = order.status]
                     ELSE /\ pc' = [pc EXCEPT ![p] = "notify"]
                          /\ loc' = [loc EXCEPT ![p].order_status = order.status]
                          /\ UNCHANGED <<db, tx, resp>>
    /\ UNCHANGED <<req, gatewayCalls, dispatchCalls, now, products>>

\* the row recording the status the order has, not the one communicated
NotificationOfCurrentStatus(id, order_id, new_status, current, r) ==
    [id |-> id, order_id |-> order_id, status |-> current,
     response_status_code |-> r.status_code, response_payload |-> r.body]

\* order_service.py:149-154, Notification(order_id, status=new_status.value,
\* response_status_code, response_payload); current is the order's status.
Notification(id, order_id, new_status, current, r) ==
    [id |-> id, order_id |-> order_id, status |-> new_status,
     response_status_code |-> r.status_code, response_payload |-> r.body]

\* update_order_status_and_notify, lines 148-156: POST the new status, add
\* the Notification row with whatever came back, flush.
SendNotification(p) ==
    /\ pc[p] = "notify"
    /\ \E outcome \in DispatcherOutcomes :
         LET r == send_notification(outcome) IN
         /\ dispatchCalls' = dispatchCalls \cup
                {[proc |-> p, order_id |-> req[p].order_id,
                  status |-> req[p].status, kind |-> outcome.kind,
                  status_code |-> r.status_code, body |-> r.body]}
         /\ tx' = [tx EXCEPT ![p].notifications =
                (p :> Notification(p, req[p].order_id, req[p].status,
                                   loc[p].order_status, r))]
         /\ loc' = [loc EXCEPT ![p].status_code = r.status_code,
                               ![p].response_body = r.body]
    /\ pc' = [pc EXCEPT ![p] = "commit"]
    /\ UNCHANGED <<db, req, resp, gatewayCalls, now, products>>

\* update_status (orders.py:157-166), then the commit of get_db: the order
\* is read back and returned with 200; the commit releases the row lock.
CommitAdvance(p) ==
    /\ pc[p] = "commit"
    /\ req[p].kind = "advance"
    /\ LET oid == req[p].order_id
           order == (tx[p].orders @@ db.orders)[oid]
       IN Commit(p, [NoResponse EXCEPT !.code = 200, !.detail = "updated",
                        !.order_id = oid, !.status = order.status,
                        !.payment_id = db.payments[oid].id,
                        !.total_cents = order.total_cents,
                        !.items = db.order_items[oid]])
    /\ UNCHANGED <<req, loc, gatewayCalls, dispatchCalls, now, products>>

\* ------------------------------------------------------- users and reads
\* users.role by user id (models/user.py:14-36).  The customer_id of a
\* request is current_user.id, the user its bearer token names; it is "" for
\* a request without a valid bearer token.
Users == [alice |-> "customer", bob |-> "customer", morgan |-> "manager"]

Anonymous == ""

\* GET /orders/{order_id}
GetRequest(user, order_id) ==
    [kind |-> "get", customer_id |-> user, token |-> NoToken,
     items |-> <<>>, total_cents |-> {}, order_id |-> order_id,
     status |-> ""]

\* get_current_user (core/auth.py:40-68): 401 unless the token decodes and
\* names a user that exists.
Authenticated(user) == user \in DOMAIN Users

\* the item priced again from the catalog as it is at the read
OrderItemRepriced(it) ==
    [product_id |-> it.product_id, variation_id |-> it.variation_id,
     quantity |-> it.quantity,
     unit_price_cents |-> UnitPrice(Variations[it.variation_id]),
     line_total_cents |->
        it.quantity * UnitPrice(Variations[it.variation_id])]

\* _order_to_response, lines 36-46: the fields OrderItemResponse keeps, all
\* taken from the order_items row.
OrderItemResponse(it) ==
    [product_id |-> it.product_id, variation_id |-> it.variation_id,
     quantity |-> it.quantity, unit_price_cents |-> it.unit_price_cents,
     line_total_cents |-> it.quantity * it.unit_price_cents]

\* _order_to_response, lines 59-75.
OrderBody(order, items, payment) ==
    [NoResponse EXCEPT !.code = 200, !.detail = "order",
        !.order_id = order.id, !.payment_id = payment.id,
        !.status = order.status, !.total_cents = order.total_cents,
        !.items = [i \in 1..Len(items) |-> OrderItemResponse(items[i])]]

\* a customer may read any order
MayReadAny(user, order) == TRUE

\* get_order, line 139: a customer reads only the orders placed as that
\* customer, a manager reads any.
MayRead(user, order) ==
    ~(Users[user] = "customer" /\ order.customer_id # user)

\* get_order (orders.py:129-141), a handler that only reads.
get_order(p, r) ==
    /\ req' = [req EXCEPT ![p] = r]
    /\ IF ~Authenticated(r.customer_id)
       THEN Rollback(p, [NoResponse EXCEPT !.code = 401,
                            !.detail = "Could not validate credentials"])
       ELSE IF r.order_id \notin DOMAIN db.orders
       THEN Rollback(p, [NoResponse EXCEPT !.code = 404,
                            !.detail = "Order not found"])
       ELSE IF ~MayRead(r.customer_id, db.orders[r.order_id])
       THEN Rollback(p, [NoResponse EXCEPT !.code = 404,
                            !.detail = "Order not found"])
       ELSE Commit(p, OrderBody(db.orders[r.order_id],
                                db.order_items[r.order_id],
                                db.payments[r.order_id]))
    /\ loc' = [loc EXCEPT ![p] = [NoLocals EXCEPT !.prior_products = products]]
    /\ UNCHANGED <<gatewayCalls, dispatchCalls, now, products>>

\* ----------------------------------------------------------------- catalog
\* PATCH /admin/products/{product_id} bodies: base_price_cents >= 0, for the
\* product the carts name.
BasePrices == {300, 350}
RepricedProductIds == {"espresso"}

\* update_product (api/admin.py:68-98): a manager sets the base price of a
\* product that exists; the change is committed when the handler returns.
update_product ==
    \E user \in DOMAIN Users, product_id \in RepricedProductIds,
       base_price_cents \in BasePrices :
        /\ Users[user] = "manager"
        /\ products' = [products EXCEPT ![product_id] = base_price_cents]
        /\ UNCHANGED <<db, pc, req, loc, tx, resp, gatewayCalls,
                       dispatchCalls, now>>

\* ----------------------------------------------------------- specification
Next ==
    \E p \in Procs :
        \/ BeginPlace(p)
        \/ CheckIdempotency(p)
        \/ RequestPayment(p)
        \/ CreateOrder(p)
        \/ LinkIdempotency(p)
        \/ CommitPlacement(p)
        \/ BeginAdvance(p)
        \/ LockAndValidate(p)
        \/ SendNotification(p)
        \/ CommitAdvance(p)

Spec == Init /\ [][Next]_vars

\* Orders inserted directly, as the tests do (test_orders_api.py:413-420 adds
\* an Order row through the session; test_order_service.py:115-119 runs the
\* service on an order in each status): one order, in any status, with the
\* rows a placement would have written for it.
SeededDb(status) ==
    LET computed == validate_and_compute_total(EspressoCart) IN
    [orders |-> (1 :> [NewOrder(1, "alice", computed.total_cents)
                            EXCEPT !.status = status]),
     order_items |-> (1 :> [i \in 1..Len(computed.computed) |->
                        [order_id |-> 1,
                         product_id |-> computed.computed[i].product_id,
                         variation_id |-> computed.computed[i].variation_id,
                         quantity |-> computed.computed[i].quantity,
                         unit_price_cents |->
                            computed.computed[i].unit_price_cents]]),
     payments |-> (1 :> [id |-> 1, order_id |-> 1,
                         amount_cents |-> computed.total_cents,
                         request_payload |-> computed.total_cents,
                         response_status_code |-> 200,
                         response_payload |-> "json"]),
     idempotency_keys |-> EmptyTable,
     notifications |-> EmptyTable]

InitSeeded ==
    /\ products = Products
    /\ \E status \in OrderStatus : db = SeededDb(status)
    /\ pc = [p \in Procs |-> "idle"]
    /\ req = [p \in Procs |-> NoRequest]
    /\ loc = [p \in Procs |-> NoLocals]
    /\ tx = [p \in Procs |-> EmptyDb]
    /\ resp = [p \in Procs |-> NoResponse]
    /\ gatewayCalls = {}
    /\ dispatchCalls = {}
    /\ now = 0

BeginAnyAdvance(p) ==
    /\ SlotFree(p)
    /\ \E r \in AnyAdvanceRequests : ParseStatus(p, r)

NextSeeded ==
    \E p \in Procs :
        \/ BeginAnyAdvance(p)
        \/ LockAndValidate(p)
        \/ SendNotification(p)
        \/ CommitAdvance(p)

SpecSeeded == InitSeeded /\ [][NextSeeded]_vars

\* One placement whose cart and declared total are any of the bounded ones:
\* lines over the catalog's products, its variations and one variation id
\* the catalog does not have, quantities from 1 (OrderItemCreate: ge=1),
\* carts of at least one line (OrderCreate: min_length=1).
MaxLen == 2
MaxQty == 2

CartLines ==
    [product_id : ProductIds, variation_id : VariationIds \cup {"oat"},
     quantity : 1..MaxQty]

Carts == UNION {[1..n -> CartLines] : n \in 1..MaxLen}

AnyPlaceRequests ==
    {PlaceRequest("alice", NoToken, items, total_cents) :
        items \in Carts, total_cents \in {{}, {800}, {5000}}}

BeginPlaceAny(p) ==
    /\ p = 1
    /\ SlotFree(p)
    /\ \E r \in AnyPlaceRequests : PriceAndCompare(p, r)

NextCarts ==
    \E p \in Procs :
        \/ BeginPlaceAny(p)
        \/ CheckIdempotency(p)
        \/ RequestPayment(p)
        \/ CreateOrder(p)
        \/ CommitPlacement(p)

SpecCarts == Init /\ [][NextCarts]_vars

\* Advances whose target is any of the strings StatusStrings; order 1
\* exists, order 2 does not.
BeginStringAdvance(p) ==
    /\ SlotFree(p)
    /\ \E r \in StringAdvanceRequests : ParseStatus(p, r)

NextStrings ==
    \E p \in Procs :
        \/ BeginStringAdvance(p)
        \/ LockAndValidate(p)
        \/ SendNotification(p)
        \/ CommitAdvance(p)

SpecStrings == InitSeeded /\ [][NextStrings]_vars

\* Placements of the same cart under several tokens.
TokenPlaceRequests ==
    {PlaceRequest("alice", t, EspressoCart, {}) : t \in {"k1", "k2", LongToken}}

BeginTokenPlace(p) ==
    /\ SlotFree(p)
    /\ \E r \in TokenPlaceRequests : PriceAndCompare(p, r)

NextTokens ==
    \E p \in Procs :
        \/ BeginTokenPlace(p)
        \/ CheckIdempotency(p)
        \/ RequestPayment(p)
        \/ CreateOrder(p)
        \/ LinkIdempotency(p)
        \/ CommitPlacement(p)

SpecTokens == Init /\ [][NextTokens]_vars

\* Placements with one token while time passes, a time to live at a step.
MaxTicks == 2

Tick ==
    /\ now < MaxTicks * IDEMPOTENCY_TTL_HOURS
    /\ now' = now + IDEMPOTENCY_TTL_HOURS
    /\ UNCHANGED <<db, pc, req, loc, tx, resp, gatewayCalls, dispatchCalls,
                   products>>

BeginRetry(p) ==
    /\ SlotFree(p)
    /\ PriceAndCompare(p, PlaceRequest("alice", "k1", EspressoCart, {}))

NextExpiry ==
    \/ Tick
    \/ \E p \in Procs :
        \/ BeginRetry(p)
        \/ CheckIdempotency(p)
        \/ RequestPayment(p)
        \/ CreateOrder(p)
        \/ LinkIdempotency(p)
        \/ CommitPlacement(p)

SpecExpiry == Init /\ [][NextExpiry]_vars

\* Reads of the seeded order (of alice) and of an order id without a row, by
\* each user and by a caller without credentials.
GetRequests ==
    {GetRequest(u, o) : u \in DOMAIN Users \cup {Anonymous}, o \in {1, 2}}

BeginGet(p) ==
    /\ SlotFree(p)
    /\ \E r \in GetRequests : get_order(p, r)

NextReads == \E p \in Procs : BeginGet(p)

SpecReads == InitSeeded /\ [][NextReads]_vars

\* Placements by alice and reads of the first orders by alice, while a
\* manager changes the base price of espresso.
BeginCatalogPlace(p) ==
    /\ SlotFree(p)
    /\ PriceAndCompare(p, PlaceRequest("alice", NoToken, EspressoCart, {}))

BeginOwnGet(p) ==
    /\ SlotFree(p)
    /\ \E o \in {1, 2} : get_order(p, GetRequest("alice", o))

NextCatalog ==
    \/ update_product
    \/ \E p \in Procs :
        \/ BeginCatalogPlace(p)
        \/ CheckIdempotency(p)
        \/ RequestPayment(p)
        \/ CreateOrder(p)
        \/ CommitPlacement(p)
        \/ BeginOwnGet(p)

SpecCatalog == Init /\ [][NextCatalog]_vars

\* Placements that declare the total of the cart at the first prices, while
\* a manager changes the base price of espresso.
BeginDeclaredPlace(p) ==
    /\ SlotFree(p)
    /\ PriceAndCompare(p, PlaceRequest("alice", NoToken, EspressoCart, {800}))

NextReprice ==
    \/ update_product
    \/ \E p \in Procs :
        \/ BeginDeclaredPlace(p)
        \/ CheckIdempotency(p)
        \/ RequestPayment(p)
        \/ CreateOrder(p)
        \/ CommitPlacement(p)

SpecReprice == Init /\ [][NextReprice]_vars

\* Advances of the seeded order sent without credentials, by a customer and
\* by a manager.
AuthAdvanceRequests ==
    {[AdvanceRequest(1, s) EXCEPT !.customer_id = u] :
        u \in {Anonymous, "alice", "morgan"}, s \in {"preparation", "ready"}}

BeginAuthAdvance(p) ==
    /\ SlotFree(p)
    /\ \E r \in AuthAdvanceRequests : ParseStatus(p, r)

NextAuth ==
    \E p \in Procs :
        \/ BeginAuthAdvance(p)
        \/ LockAndValidate(p)
        \/ SendNotification(p)
        \/ CommitAdvance(p)

SpecAuth == InitSeeded /\ [][NextAuth]_vars

\* Placements without a token and advances of the first order to its next
\* status, with a gateway and a notification service that may fail.
BeginOutagePlace(p) ==
    /\ SlotFree(p)
    /\ PriceAndCompare(p, PlaceRequest("alice", NoToken, EspressoCart, {}))

BeginOutageAdvance(p) ==
    /\ SlotFree(p)
    /\ ParseStatus(p, AdvanceRequest(1, "preparation"))

NextOutages ==
    \E p \in Procs :
        \/ BeginOutagePlace(p)
        \/ CheckIdempotency(p)
        \/ RequestPayment(p)
        \/ CreateOrder(p)
        \/ CommitPlacement(p)
        \/ BeginOutageAdvance(p)
        \/ LockAndValidate(p)
        \/ SendNotification(p)
        \/ CommitAdvance(p)

SpecOutages == Init /\ [][NextOutages]_vars

\* Placements of one cart by two customers under the same token.
OwnerPlaceRequests ==
    {PlaceRequest(u, "k1", EspressoCart, {}) : u \in {"alice", "bob"}}

BeginOwnerPlace(p) ==
    /\ SlotFree(p)
    /\ \E r \in OwnerPlaceRequests : PriceAndCompare(p, r)

NextOwners ==
    \E p \in Procs :
        \/ BeginOwnerPlace(p)
        \/ CheckIdempotency(p)
        \/ RequestPayment(p)
        \/ CreateOrder(p)
        \/ LinkIdempotency(p)
        \/ CommitPlacement(p)

SpecOwners == Init /\ [][NextOwners]_vars

\* Placements of two carts by one customer under the same token.
TwoCartPlaceRequests ==
    {PlaceRequest("alice", "k1", c, {}) : c \in {EspressoCart, LatteCart}}

BeginTwoCartPlace(p) ==
    /\ SlotFree(p)
    /\ \E r \in TwoCartPlaceRequests : PriceAndCompare(p, r)

NextTwoCarts ==
    \E p \in Procs :
        \/ BeginTwoCartPlace(p)
        \/ CheckIdempotency(p)
        \/ RequestPayment(p)
        \/ CreateOrder(p)
        \/ LinkIdempotency(p)
        \/ CommitPlacement(p)

SpecTwoCarts == Init /\ [][NextTwoCarts]_vars

\* Advances of the seeded order to every status, each handler running on
\* once it has started: the event loop resumes a handler whose await has
\* completed, and PostgreSQL grants the row lock to a waiter once the holder
\* has committed or rolled back.
LifecycleAdvanceRequests == {AdvanceRequest(1, s) : s \in OrderStatus}

BeginLifecycleAdvance(p) ==
    /\ SlotFree(p)
    /\ \E r \in LifecycleAdvanceRequests : ParseStatus(p, r)

NextLive ==
    \E p \in Procs :
        \/ BeginLifecycleAdvance(p)
        \/ LockAndValidate(p)
        \/ SendNotification(p)
        \/ CommitAdvance(p)

SpecLive ==
    /\ InitSeeded
    /\ [][NextLive]_vars
    /\ \A p \in Procs :
        /\ WF_vars(LockAndValidate(p))
        /\ WF_vars(SendNotification(p))
        /\ WF_vars(CommitAdvance(p))

\* ------------------------------------------------------------------ claims
ClientTokens == {r.token : r \in PlaceRequests} \ {NoToken}

\* Successful charges made for placements carrying this token.
SuccessfulCharges(token) ==
    {c \in gatewayCalls :
        req[c.proc].token = token /\ InSuccessRange(c.status_code)}

IsPlacement(p) == req[p].kind = "place"
IsAdvance(p) == req[p].kind = "advance"

\* C1: for any interleaving of placements carrying the same idempotency
\* token, at most one order is ever committed for the token, and a record
\* that is linked to an order is never linked to another order.
C1_OneOrderPerToken ==
    /\ [](\A t \in ClientTokens : Cardinality(OrdersOfToken(t)) <= 1)
    /\ [][\A h \in DOMAIN db.idempotency_keys :
            db.idempotency_keys[h].order_id # NULL =>
                /\ h \in DOMAIN db'.idempotency_keys
                /\ db'.idempotency_keys[h].order_id =
                        db.idempotency_keys[h].order_id]_vars

\* C2: a placement (declaring no total) that starts after a placement with
\* the same token has committed returns the order id and the payment id of
\* that original, writes no row, makes no call to the gateway, and the token
\* has been charged once.
C2_ReplayReturnsOriginal ==
    \A p \in Procs :
        (/\ IsPlacement(p) /\ pc[p] = "done" /\ loc[p].prior_orders # {}
         /\ req[p].total_cents = {}) =>
            /\ \A o \in loc[p].prior_orders :
                    /\ resp[p].order_id = o
                    /\ resp[p].payment_id = db.payments[o].id
            /\ p \notin DOMAIN db.orders
            /\ p \notin DOMAIN db.order_items
            /\ p \notin DOMAIN db.payments
            /\ \A c \in gatewayCalls : c.proc # p
            /\ Cardinality(SuccessfulCharges(req[p].token)) = 1

\* C3: for any interleaving of placements carrying the same idempotency
\* token, the gateway charges successfully at most once for the token.
C3_ChargedAtMostOnce ==
    \A t \in ClientTokens : Cardinality(SuccessfulCharges(t)) <= 1

C5_OrderOnlyIfCharged ==
    \A o \in DOMAIN db.orders :
        /\ o \in DOMAIN db.payments
        /\ db.payments[o].order_id = o
        /\ InSuccessRange(db.payments[o].response_status_code)
        /\ \E c \in gatewayCalls :
                /\ c.proc = o
                /\ c.status_code = db.payments[o].response_status_code

\* C5 witness: an order is committed while another placement's charge failed.
C5_Witness ==
    \E o \in DOMAIN db.orders, p \in Procs :
        /\ IsPlacement(p) /\ ChargedFailed(p)
        /\ o # p /\ o \in DOMAIN db.payments

\* The lifecycle of an order: waiting < preparation < ready < delivered.
Lifecycle == <<"waiting", "preparation", "ready", "delivered">>

Rank(status) == CHOOSE i \in 1..Len(Lifecycle) : Lifecycle[i] = status

\* The immediate successor of a status; none for delivered.
Successor(status) ==
    {Lifecycle[i + 1] : i \in {j \in 1..(Len(Lifecycle) - 1) : Lifecycle[j] = status}}

\* Request p is an advance with a recognized target that found its order.
Validated(p) ==
    /\ IsAdvance(p) /\ pc[p] = "done"
    /\ req[p].status \in OrderStatus
    /\ resp[p].code # 404

\* C6: an advance with a recognized target succeeds only when the target is
\* the immediate successor of the status the order has when it is locked;
\* every other one is answered with the invalid-transition error naming that
\* status and its only successor (or "none"), and the step that rejects it
\* changes no order.
C6_OnlySuccessorAdvances ==
    /\ [](\A p \in Procs :
            Validated(p) =>
                LET cur == loc[p].order_status IN
                /\ cur \in OrderStatus
                /\ IF Successor(cur) = {req[p].status}
                   THEN resp[p].code = 200
                   ELSE /\ resp[p].code = 400
                        /\ resp[p].detail = "Invalid transition"
                        /\ resp[p].current = cur
                        /\ resp[p].allowed =
                            (IF Successor(cur) = {} THEN "none"
                             ELSE CHOOSE a \in Successor(cur) : TRUE))
    /\ [][\A p \in Procs :
            (pc[p] = "lock" /\ pc'[p] = "done") =>
                /\ db' = db
                /\ IF resp'[p].code = 404
                   THEN req[p].order_id \notin DOMAIN db.orders
                   ELSE db.orders[req[p].order_id].status =
                            loc'[p].order_status]_vars

\* C6 witness: on an order that is ready, an advance to delivered was
\* accepted and an advance back to waiting was rejected naming ready and
\* delivered.
C6_Witness ==
    \E p, q \in Procs :
        /\ Validated(p) /\ resp[p].code = 200 /\ req[p].status = "delivered"
        /\ Validated(q) /\ resp[q].code = 400 /\ req[q].status = "waiting"
        /\ req[q].order_id = req[p].order_id
        /\ resp[q].current = "ready" /\ resp[q].allowed = "delivered"

\* C7: an order created by placement starts in waiting; in every step the
\* status of an existing order stays or moves to its immediate successor (so
\* never backward, never skipping, never out of delivered), and no order
\* disappears.
C7_StatusHistoryIsPrefix ==
    [][/\ DOMAIN db.orders \subseteq DOMAIN db'.orders
       /\ \A o \in DOMAIN db'.orders :
            IF o \in DOMAIN db.orders
            THEN \/ db'.orders[o].status = db.orders[o].status
                 \/ {db'.orders[o].status} = Successor(db.orders[o].status)
            ELSE db'.orders[o].status = "waiting"]_vars

\* C7 witness: an order created by a placement, on which an advance has been
\* accepted and committed.
C7_Witness ==
    \E p \in Procs :
        /\ IsAdvance(p) /\ pc[p] = "done" /\ resp[p].code = 200
        /\ req[p].order_id \in DOMAIN db.orders
        /\ IsPlacement(req[p].order_id)

\* C8: when two advances of the same order to the same target overlap (one
\* starts while the other is in flight) and both start while the order is in
\* the target's predecessor, exactly one advance to that target succeeds,
\* each of the two that did not succeed is rejected as an invalid
\* transition, and the order has moved to the target.
C8_ConcurrentAdvanceOneWinner ==
    \A p, q \in Procs :
        (/\ p # q /\ IsAdvance(p) /\ IsAdvance(q)
         /\ req[p].order_id = req[q].order_id /\ req[p].status = req[q].status
         /\ pc[p] = "done" /\ pc[q] = "done"
         /\ q \in loc[p].overlaps
         /\ Successor(loc[p].prior_status) = {req[p].status}
         /\ Successor(loc[q].prior_status) = {req[q].status}) =>
            /\ Cardinality({r \in Procs :
                    /\ IsAdvance(r) /\ req[r].order_id = req[p].order_id
                    /\ req[r].status = req[p].status
                    /\ resp[r].code = 200}) = 1
            /\ \A r \in {p, q} :
                    resp[r].code # 200 =>
                        resp[r].code = 400 /\ resp[r].detail = "Invalid transition"
            /\ Rank(db.orders[req[p].order_id].status) >= Rank(req[p].status)

\* C9: when the dispatch of an advance fails (the POST raises, or the
\* answer is outside [200,300)), the advance is still answered 200 with the
\* order in the new status, and the new status is committed.
C9_NotifyFailureKeepsTransition ==
    \A p \in Procs :
        (/\ IsAdvance(p) /\ pc[p] = "done"
         /\ \E c \in dispatchCalls :
                c.proc = p /\ ~InSuccessRange(c.status_code)) =>
            /\ resp[p].code = 200
            /\ resp[p].status = req[p].status
            /\ Rank(db.orders[req[p].order_id].status) >= Rank(req[p].status)

\* C10: a notification is sent only for a status change that is committed,
\* after the sender has released the row lock.
C10_NotifyAfterCommit ==
    \A c \in dispatchCalls :
        /\ c.order_id \in DOMAIN db.orders
        /\ Rank(db.orders[c.order_id].status) >= Rank(c.status)
        /\ ~HoldsOrderLock(c.proc, c.order_id)

\* Notification rows a step commits.
AppendedNotifications == DOMAIN db'.notifications \ DOMAIN db.notifications

\* Request p is an advance that passed the transition test and was answered.
Accepted(p) == IsAdvance(p) /\ pc[p] = "done" /\ resp[p].code = 200

\* Request p is an advance that was answered with an error.
Rejected(p) == IsAdvance(p) /\ pc[p] = "done" /\ resp[p].code # 200

\* C11: every advance that passes the transition test makes one dispatch and
\* appends exactly one Notification row for its order, carrying the new
\* status and the status code and payload the dispatch returned, whatever
\* they are; a rejected advance (unknown status, order not found, invalid
\* transition) makes no dispatch and appends no row; no step updates or
\* deletes a Notification row.
C11_OneNotificationPerAdvance ==
    /\ [](\A p \in Procs :
            /\ Accepted(p) =>
                /\ Cardinality({c \in dispatchCalls : c.proc = p}) = 1
                /\ Cardinality({n \in DOMAIN db.notifications :
                        db.notifications[n].id = p}) = 1
                /\ \A c \in dispatchCalls :
                        c.proc = p =>
                            /\ db.notifications[p].order_id = req[p].order_id
                            /\ db.notifications[p].status = req[p].status
                            /\ db.notifications[p].response_status_code =
                                    c.status_code
                            /\ db.notifications[p].response_payload = c.body
            /\ Rejected(p) =>
                /\ resp[p].code \in {400, 404}
                /\ \A c \in dispatchCalls : c.proc # p
                /\ \A n \in DOMAIN db.notifications :
                        db.notifications[n].id # p)
    /\ [][/\ \A n \in DOMAIN db.notifications :
                /\ n \in DOMAIN db'.notifications
                /\ db'.notifications[n] = db.notifications[n]
          /\ IF \E p \in Procs : /\ IsAdvance(p) /\ pc[p] = "commit"
                                 /\ pc'[p] = "done" /\ resp'[p].code = 200
             THEN Cardinality(AppendedNotifications) = 1
             ELSE AppendedNotifications = {}]_vars

\* C11 witness: an accepted advance whose dispatch raised has its row with
\* (500, error), and a rejected advance of the same order has none.
C11_Witness ==
    \E p, q \in Procs :
        /\ Accepted(p) /\ p \in DOMAIN db.notifications
        /\ db.notifications[p].response_status_code = 500
        /\ db.notifications[p].response_payload = "error"
        /\ db.notifications[p].status = "ready"
        /\ Rejected(q) /\ resp[q].detail = "Invalid transition"
        /\ req[q].order_id = req[p].order_id
        /\ q \notin DOMAIN db.notifications

\* Sum over the item rows of quantity * unit_price_cents.
RECURSIVE SumFrom(_, _)
SumFrom(items, i) ==
    IF i > Len(items) THEN 0
    ELSE items[i].quantity * items[i].unit_price_cents + SumFrom(items, i + 1)

ItemsTotal(items) == SumFrom(items, 1)

\* C12: every committed order has its item rows, and its total_cents is the
\* sum over them of quantity * unit_price_cents.
C12_TotalIsSumOfItems ==
    \A o \in DOMAIN db.orders :
        /\ o \in DOMAIN db.order_items
        /\ Len(db.order_items[o]) >= 1
        /\ db.orders[o].total_cents = ItemsTotal(db.order_items[o])

\* C12 witness: a committed order of two lines of different products and
\* different quantities.
C12_Witness ==
    \E o \in DOMAIN db.orders :
        /\ o \in DOMAIN db.order_items
        /\ Len(db.order_items[o]) = 2
        /\ db.order_items[o][1].product_id # db.order_items[o][2].product_id
        /\ db.order_items[o][1].quantity = 2
        /\ db.order_items[o][2].quantity = 1
        /\ db.orders[o].total_cents = 1250

\* Every line names a variation of the catalog that belongs to its product.
ValidCart(items) ==
    \A i \in 1..Len(items) :
        /\ items[i].product_id \in ProductIds
        /\ items[i].variation_id \in VariationIds
        /\ Variations[items[i].variation_id].product_id = items[i].product_id

LinePermutations(n) ==
    {f \in [1..n -> 1..n] : \A i, j \in 1..n : i # j => f[i] # f[j]}

Permuted(items, f) == [i \in 1..Len(items) |-> items[f[i]]]

\* Request p has priced its cart (order_service.py:69) and holds the result.
Priced(p) == IsPlacement(p) /\ pc[p] \in {"pay", "create", "commit"}

\* C13: for a valid cart the pricing returns one entry per line, in order,
\* with the line's product, variation and quantity and the unit price
\* base price + price change; the total is the sum of unit price * quantity,
\* and pricing any permutation of the lines gives the same total.
C13_PricingIsSumOfLines ==
    \A p \in Procs :
        (Priced(p) /\ ValidCart(req[p].items)) =>
            LET items == req[p].items
                computed == loc[p].computed
            IN /\ Len(computed) = Len(items)
               /\ \A i \in 1..Len(items) :
                    /\ computed[i].product_id = items[i].product_id
                    /\ computed[i].variation_id = items[i].variation_id
                    /\ computed[i].quantity = items[i].quantity
                    /\ computed[i].unit_price_cents =
                            Products[items[i].product_id]
                            + Variations[items[i].variation_id].price_change_cents
               /\ loc[p].total_cents = ItemsTotal(computed)
               /\ \A f \in LinePermutations(Len(items)) :
                    LET v == validate_and_compute_total(Permuted(items, f))
                    IN v.ok /\ v.total_cents = loc[p].total_cents

\* C13 witness: a priced cart of one latte with pumpkin spice and two double
\* espressos: 450 + 2 * 400.
C13_Witness ==
    \E p \in Procs :
        /\ Priced(p) /\ ValidCart(req[p].items)
        /\ Len(req[p].items) = 2
        /\ req[p].items[1].product_id = "latte"
        /\ req[p].items[1].quantity = 1
        /\ req[p].items[2].product_id = "espresso"
        /\ req[p].items[2].quantity = 2
        /\ loc[p].total_cents = 1250

\* Line i of the cart names a variation of the catalog that belongs to its
\* product.
Resolves(items, i) ==
    /\ items[i].product_id \in ProductIds
    /\ items[i].variation_id \in VariationIds
    /\ Variations[items[i].variation_id].product_id = items[i].product_id

\* The first line of an invalid cart that does not resolve.
FirstUnresolved(items) ==
    CHOOSE i \in 1..Len(items) :
        /\ ~Resolves(items, i)
        /\ \A j \in 1..(i - 1) : Resolves(items, j)

\* Request p has committed or flushed no row and has not called the gateway.
NoChargeNoRow(p) ==
    /\ \A c \in gatewayCalls : c.proc # p
    /\ tx[p] = EmptyDb
    /\ p \notin DOMAIN db.orders
    /\ p \notin DOMAIN db.order_items
    /\ p \notin DOMAIN db.payments
    /\ db.idempotency_keys = EmptyTable

\* C14: a placement whose cart has a line that does not resolve (unknown
\* variation, or a variation of another product) is answered 400 naming the
\* pair of the first such line, with no total, no order body, no call to the
\* gateway and no row written.
C14_InvalidCartAborts ==
    \A p \in Procs :
        (IsPlacement(p) /\ ~ValidCart(req[p].items)) =>
            LET i == FirstUnresolved(req[p].items) IN
            /\ pc[p] = "done"
            /\ resp[p].code = 400
            /\ resp[p].offending =
                    <<req[p].items[i].product_id, req[p].items[i].variation_id>>
            /\ resp[p].total_cents = 0 /\ resp[p].computed = {}
            /\ resp[p].order_id = NULL
            /\ NoChargeNoRow(p)

\* C14 witness: a cart whose first line resolves and whose second line names
\* a variation of another product was rejected naming the second line.
C14_Witness ==
    \E p \in Procs :
        /\ IsPlacement(p) /\ pc[p] = "done" /\ Len(req[p].items) = 2
        /\ Resolves(req[p].items, 1)
        /\ req[p].items[2].product_id = "espresso"
        /\ req[p].items[2].variation_id = "pumpkin_spice"
        /\ resp[p].code = 400
        /\ resp[p].offending = <<"espresso", "pumpkin_spice">>

\* The total of a valid cart by the pricing rule: the sum over the lines of
\* quantity * (base price + price change).
RECURSIVE ResolvedFrom(_, _)
ResolvedFrom(items, i) ==
    IF i > Len(items) THEN 0
    ELSE items[i].quantity
            * (Products[items[i].product_id]
               + Variations[items[i].variation_id].price_change_cents)
         + ResolvedFrom(items, i + 1)

ResolvedTotal(items) == ResolvedFrom(items, 1)

\* C15: a placement of a valid cart that declares a total other than the
\* resolved one is answered 409 reporting the computed total, without any
\* call to the gateway and without any row written.
C15_TotalMismatchBeforeCharge ==
    \A p \in Procs :
        (/\ IsPlacement(p) /\ ValidCart(req[p].items)
         /\ req[p].total_cents # {}
         /\ req[p].total_cents # {ResolvedTotal(req[p].items)}) =>
            /\ pc[p] = "done"
            /\ resp[p].code = 409
            /\ resp[p].detail = "Total mismatch"
            /\ resp[p].computed = {ResolvedTotal(req[p].items)}
            /\ resp[p].received = req[p].total_cents
            /\ NoChargeNoRow(p)

\* C15 witness: two double espressos declared at 5000 were rejected with
\* computed 800, and no charge was made.
C15_Witness ==
    \E p \in Procs :
        /\ IsPlacement(p) /\ req[p].items = EspressoCart
        /\ req[p].total_cents = {5000}
        /\ resp[p].code = 409 /\ resp[p].computed = {800}
        /\ gatewayCalls = {}

\* C17: a placement whose cart has a line that does not resolve and that
\* also declares a total is answered with the catalog error 400, never with
\* the total mismatch 409, whatever the declared total is.
C17_CatalogErrorBeforeMismatch ==
    \A p \in Procs :
        (/\ IsPlacement(p) /\ pc[p] = "done"
         /\ ~ValidCart(req[p].items) /\ req[p].total_cents # {}) =>
            /\ resp[p].code = 400
            /\ resp[p].detail = "Invalid product_id or variation_id"
            /\ resp[p].computed = {} /\ resp[p].received = {}

\* C17 witness: a cart with a variation the catalog does not have, declared
\* at 5000, was answered 400.
C17_Witness ==
    \E p \in Procs :
        /\ IsPlacement(p) /\ pc[p] = "done"
        /\ req[p].total_cents = {5000}
        /\ \E i \in 1..Len(req[p].items) : req[p].items[i].variation_id = "oat"
        /\ resp[p].code = 400

\* Request p is a placement that arrived with a token for which an order was
\* already committed, hence linked to the token's record.
RetryOfLinkedToken(p) ==
    /\ IsPlacement(p) /\ pc[p] = "done"
    /\ req[p].token # NoToken
    /\ loc[p].prior_orders # {}

\* C16: a placement whose token is already linked to an order when it
\* arrives is answered as a replay (200) with that order, whatever total it
\* declares: the idempotency check comes before the comparison of the
\* declared total.
C16_ReplayBeforeTotalCheck ==
    \A p \in Procs :
        (RetryOfLinkedToken(p) /\ req[p].total_cents # {}) =>
            /\ resp[p].code = 200
            /\ resp[p].is_replay
            /\ resp[p].order_id \in loc[p].prior_orders

\* The body of an order response.
Body(r) ==
    [order_id |-> r.order_id, payment_id |-> r.payment_id,
     status |-> r.status, total_cents |-> r.total_cents, items |-> r.items]

\* C18: the placement that created an order was answered 201, and a later
\* placement with the same token and cart is answered 200 with the body of
\* that answer, whatever happened between the two.
C18_ReplayBodyIdentical ==
    \A p \in Procs :
        (RetryOfLinkedToken(p) /\ req[p].total_cents = {}) =>
            /\ resp[p].code = 200
            /\ \A q \in loc[p].prior_orders :
                    /\ resp[q].code = 201
                    /\ Body(resp[p]) = Body(resp[q])

\* C19: a placement whose charge the gateway answered outside [200,300) is
\* answered 402 with the payment-failed detail.
C19_PaymentFailureIs402 ==
    \A p \in Procs :
        (IsPlacement(p) /\ pc[p] = "done" /\ ChargedFailed(p)) =>
            /\ resp[p].code = 402
            /\ resp[p].detail = "Payment failed"

\* C20: a placement that was charged successfully and whose order was not
\* committed is answered 502 (payment succeeded but order not created), has
\* left no row, and called the gateway once.
C20_PersistFailureIs502 ==
    \A p \in Procs :
        (/\ IsPlacement(p) /\ pc[p] = "done"
         /\ ChargedOk(p) /\ p \notin DOMAIN db.orders) =>
            /\ resp[p].code = 502
            /\ p \notin DOMAIN db.order_items
            /\ p \notin DOMAIN db.payments
            /\ Cardinality({c \in gatewayCalls : c.proc = p}) = 1

\* The committed rows hold the order o whole: its items, its payment, and
\* for no record a link to an order that is not committed.
CommittedWhole(rows) ==
    /\ \A o \in DOMAIN rows.orders :
        /\ o \in DOMAIN rows.order_items
        /\ Len(rows.order_items[o]) = Len(req[o].items)
        /\ \E y \in DOMAIN rows.payments : rows.payments[y].order_id = o
    /\ \A o \in DOMAIN rows.order_items : o \in DOMAIN rows.orders
    /\ \A y \in DOMAIN rows.payments :
            rows.payments[y].order_id \in DOMAIN rows.orders
    /\ \A h \in DOMAIN rows.idempotency_keys :
            rows.idempotency_keys[h].order_id # NULL =>
                rows.idempotency_keys[h].order_id \in DOMAIN rows.orders

\* C21: what every request can read (the committed rows) never holds an
\* order without its items or its payment, nor a record linked to an order
\* that is not committed; the order, items, payment and link of a placement
\* become committed in one step, and a placement that ends in an error
\* commits none of them; no replay finds its order missing (502) or without
\* payment or items.
C21_PlacementIsAtomic ==
    /\ [](/\ CommittedWhole(db)
          /\ \A p \in Procs :
                /\ resp[p].code # 502
                /\ resp[p].is_replay =>
                        resp[p].payment_id # NULL /\ resp[p].items # <<>>)
    /\ [][\A p \in Procs :
            (IsPlacement(p) /\ pc[p] # "done" /\ pc'[p] = "done") =>
                IF resp'[p].code = 201
                THEN /\ p \in DOMAIN db'.orders /\ p \notin DOMAIN db.orders
                     /\ p \in DOMAIN db'.order_items
                     /\ p \in DOMAIN db'.payments
                     /\ HasToken(req[p].token) =>
                            /\ hash_key(req[p].token)
                                    \in DOMAIN db'.idempotency_keys
                            /\ db'.idempotency_keys[hash_key(req[p].token)]
                                    .order_id = p
                ELSE db' = db]_vars

\* C21 witness: a placement has flushed its order, items, payment and key
\* row and not committed, none of them is readable, and a replay of an
\* earlier committed placement has been answered with order and payment.
C21_Witness ==
    \E p, q, r \in Procs :
        /\ IsPlacement(p) /\ pc[p] = "commit"
        /\ p \in DOMAIN tx[p].orders /\ p \in DOMAIN tx[p].payments
        /\ tx[p].idempotency_keys # EmptyTable
        /\ p \notin DOMAIN db.orders /\ p \notin DOMAIN db.payments
        /\ q \in DOMAIN db.orders
        /\ resp[r].is_replay /\ resp[r].order_id = q
        /\ resp[r].payment_id = db.payments[q].id

\* The four status strings of the lifecycle.
RecognizedStatuses == {Lifecycle[i] : i \in 1..Len(Lifecycle)}

\* C22: an advance of an existing order whose target string is not one of
\* the four statuses (another word, another case, the empty string) is
\* answered 400 as an invalid status, makes no dispatch, and the step that
\* answers it changes no committed row: the order keeps its status and no
\* notification is added.
C22_UnknownStatusRejected ==
    /\ [](\A p \in Procs :
            (/\ IsAdvance(p) /\ pc[p] = "done"
             /\ req[p].status \notin RecognizedStatuses
             /\ req[p].order_id \in DOMAIN db.orders) =>
                /\ resp[p].code = 400
                /\ resp[p].detail = "Invalid status"
                /\ \A c \in dispatchCalls : c.proc # p
                /\ p \notin DOMAIN db.notifications)
    /\ [][\A p \in Procs :
            (/\ pc[p] # "done" /\ pc'[p] = "done" /\ req'[p].kind = "advance"
             /\ req'[p].status \notin RecognizedStatuses) =>
                db' = db /\ dispatchCalls' = dispatchCalls]_vars

\* C22 witness: on the existing order, a target in another case and an
\* empty target were both answered 400, and no notification exists.
C22_Witness ==
    \E p, q \in Procs :
        /\ IsAdvance(p) /\ req[p].status = "Delivered" /\ resp[p].code = 400
        /\ IsAdvance(q) /\ req[q].status = "" /\ resp[q].code = 400
        /\ req[p].order_id \in DOMAIN db.orders
        /\ req[q].order_id = req[p].order_id
        /\ db.notifications = EmptyTable

\* C23: an advance of an order id that has no row is answered 404 (order not
\* found) when its target is one of the four statuses and 400 (invalid
\* status) when it is not; it writes nothing and makes no dispatch.
C23_MissingOrderNotFound ==
    \A p \in Procs :
        (/\ IsAdvance(p) /\ pc[p] = "done"
         /\ req[p].order_id \notin DOMAIN db.orders) =>
            /\ IF req[p].status \in RecognizedStatuses
               THEN resp[p].code = 404 /\ resp[p].detail = "Order not found"
               ELSE resp[p].code = 400 /\ resp[p].detail = "Invalid status"
            /\ tx[p] = EmptyDb
            /\ p \notin DOMAIN db.notifications
            /\ \A c \in dispatchCalls : c.proc # p

\* C23 witness: for the order id without a row, the target preparation was
\* answered 404 and the target cancelled 400.
C23_Witness ==
    \E p, q \in Procs :
        /\ IsAdvance(p) /\ IsAdvance(q)
        /\ req[p].order_id \notin DOMAIN db.orders
        /\ req[q].order_id = req[p].order_id
        /\ req[p].status = "preparation" /\ resp[p].code = 404
        /\ req[q].status = "cancelled" /\ resp[q].code = 400

\* Request p is a placement that carries no token.
TokenLess(p) == IsPlacement(p) /\ req[p].token = NoToken

\* C24: a placement without a token is never answered as a replay and never
\* writes an idempotency record; once its cart and declared total are
\* accepted it calls the gateway, and every such placement whose charge
\* succeeds commits an order of its own, so successful token-less placements
\* of one cart, their orders and their charges are equally many.
C24_TokenLessAlwaysFresh ==
    /\ [](/\ \A p \in Procs :
                TokenLess(p) =>
                    /\ ~resp[p].is_replay
                    /\ tx[p].idempotency_keys = EmptyTable
                    /\ (pc[p] = "done" /\ resp[p].code \notin {400, 409}) =>
                            /\ Cardinality({c \in gatewayCalls : c.proc = p}) = 1
                            /\ ChargedOk(p) <=> resp[p].code = 201
                            /\ ChargedOk(p) <=> p \in DOMAIN db.orders
                            /\ resp[p].code = 201 => resp[p].order_id = p
          /\ hash_key(NoToken) \notin DOMAIN db.idempotency_keys)
    /\ [][\A p \in Procs :
            (pc'[p] # pc[p] /\ req'[p].kind = "place"
             /\ req'[p].token = NoToken) =>
                db'.idempotency_keys = db.idempotency_keys]_vars

\* C24 witness: two placements of the same cart without a token were both
\* answered 201 with different orders, each charged once.
C24_Witness ==
    \E p, q \in Procs :
        /\ p # q /\ TokenLess(p) /\ TokenLess(q)
        /\ req[p].items = req[q].items
        /\ resp[p].code = 201 /\ resp[q].code = 201
        /\ resp[p].order_id # resp[q].order_id
        /\ {p, q} \subseteq DOMAIN db.orders
        /\ ChargedOk(p) /\ ChargedOk(q)

\* Request p is a placement whose token no other request carries.
SoleUserOfToken(p) ==
    /\ IsPlacement(p) /\ req[p].token # NoToken
    /\ \A r \in Procs \ {p} : req[r].token # req[p].token

\* C25: of two placements of the same cart under tokens that only they
\* carry, in any interleaving, neither waits for the other at the write of
\* its idempotency record, and each one whose charge succeeded is answered
\* 201 with an order, a payment and a record linked to them that are its
\* own.
C25_DistinctTokensIndependent ==
    \A p, q \in Procs :
        (/\ p # q /\ SoleUserOfToken(p) /\ SoleUserOfToken(q)
         /\ req[p].items = req[q].items) =>
            LET h == hash_key(req[p].token) IN
            /\ h # hash_key(req[q].token)
            /\ pc[p] = "link" => KeyRowFree(p, h)
            /\ (pc[p] = "done" /\ ChargedOk(p)) =>
                /\ resp[p].code = 201 /\ resp[p].order_id = p
                /\ p \in DOMAIN db.orders
                /\ p \in DOMAIN db.payments /\ db.payments[p].order_id = p
                /\ h \in DOMAIN db.idempotency_keys
                /\ db.idempotency_keys[h].order_id = p
                /\ db.idempotency_keys[h].payment_id = db.payments[p].id
            /\ (resp[p].code = 201 /\ resp[q].code = 201) =>
                /\ resp[p].order_id # resp[q].order_id
                /\ resp[p].payment_id # resp[q].payment_id

\* C25 witness: two placements under different tokens have both written
\* their order, payment and record and neither has committed yet, after a
\* third one under a third token was answered 201.
C25_Witness ==
    \E p, q, r \in Procs :
        /\ SoleUserOfToken(p) /\ SoleUserOfToken(q) /\ SoleUserOfToken(r)
        /\ p # q /\ p # r /\ q # r
        /\ pc[p] = "commit" /\ pc[q] = "commit"
        /\ tx[p].idempotency_keys # EmptyTable
        /\ tx[q].idempotency_keys # EmptyTable
        /\ resp[r].code = 201 /\ r \in DOMAIN db.orders

\* C26: a placement that arrives when the record of its token is past its
\* expires_at (more than 24 hours after the record was created) is still
\* answered as a replay, with the order the record is linked to when it is
\* looked up, without a call to the gateway and without a new order.
C26_LookupIgnoresExpiry ==
    /\ [](\A p \in Procs :
            (IsPlacement(p) /\ pc[p] = "done" /\ loc[p].prior_expired) =>
                /\ resp[p].code = 200 /\ resp[p].is_replay
                /\ \A c \in gatewayCalls : c.proc # p
                /\ p \notin DOMAIN db.orders
                /\ \A h \in DOMAIN db.idempotency_keys :
                        db.idempotency_keys[h].order_id # p)
    /\ [][\A p \in Procs :
            (/\ IsPlacement(p) /\ loc[p].prior_expired
             /\ pc[p] = "check" /\ pc'[p] # "check") =>
                LET row == db.idempotency_keys[hash_key(req[p].token)] IN
                /\ now > row.expires_at
                /\ pc'[p] = "done"
                /\ resp'[p].order_id = row.order_id
                /\ db' = db /\ gatewayCalls' = gatewayCalls]_vars

\* C26 witness: 48 hours after a record that expired at 24 was created, a
\* placement with its token was answered as a replay.
C26_Witness ==
    \E p \in Procs :
        /\ IsPlacement(p) /\ pc[p] = "done" /\ loc[p].prior_expired
        /\ resp[p].is_replay
        /\ now = 2 * IDEMPOTENCY_TTL_HOURS
        /\ \E h \in DOMAIN db.idempotency_keys :
                /\ db.idempotency_keys[h].expires_at = IDEMPOTENCY_TTL_HOURS
                /\ db.idempotency_keys[h].order_id = resp[p].order_id

\* C27: whatever the token of a placement is, the record stored for it holds
\* the token in no field: neither the hash nor the preview equals it.
C27_RawTokenNeverStored ==
    \A p \in Procs :
        (IsPlacement(p) /\ req[p].token # NoToken) =>
            \A h \in DOMAIN db.idempotency_keys :
                h = hash_key(req[p].token) =>
                    /\ db.idempotency_keys[h].key_hash # req[p].token
                    /\ db.idempotency_keys[h].key_preview # req[p].token

\* C28: every committed idempotency record is linked to a committed order
\* that was placed with the record's token; the records change only in a
\* step that commits a new order, to which the changed record is linked; a
\* placement that ends in an error (catalog, total, payment, persistence)
\* leaves the records as they were.
C28_RecordOnlyWithOrder ==
    /\ [](\A h \in DOMAIN db.idempotency_keys :
            LET o == db.idempotency_keys[h].order_id IN
            /\ o # NULL
            /\ o \in DOMAIN db.orders
            /\ req[o].token # NoToken /\ hash_key(req[o].token) = h)
    /\ [][/\ \A p \in Procs :
                (/\ pc[p] # "done" /\ pc'[p] = "done" /\ req'[p].kind = "place"
                 /\ resp'[p].code \notin {200, 201}) =>
                    db'.idempotency_keys = db.idempotency_keys
          /\ \A h \in DOMAIN db'.idempotency_keys :
                (\/ h \notin DOMAIN db.idempotency_keys
                 \/ db'.idempotency_keys[h] # db.idempotency_keys[h]) =>
                    /\ db'.idempotency_keys[h].order_id \in DOMAIN db'.orders
                    /\ db'.idempotency_keys[h].order_id \notin DOMAIN db.orders
                    /\ db'.idempotency_keys[h].order_id \in DOMAIN db'.payments
         ]_vars

\* C28 witness: with one token, a placement refused on its declared total
\* and a placement whose charge failed left no record, and a third one
\* committed its order with the record linked to it.
C28_Witness ==
    \E p, q, r \in Procs :
        /\ IsPlacement(p) /\ resp[p].code = 409 /\ req[p].token # NoToken
        /\ IsPlacement(q) /\ pc[q] = "done" /\ ChargedFailed(q)
        /\ req[q].token = req[p].token
        /\ IsPlacement(r) /\ resp[r].code = 201 /\ req[r].token = req[p].token
        /\ db.idempotency_keys[hash_key(req[r].token)].order_id = r

\* C29: an advance answered 200 leaves every field of its order other than
\* the status, the order's items and payment, and every other order as they
\* were; a status is written only by the step that commits an accepted
\* advance of that order; no step of a placement, a replay or a rejected
\* advance changes a field of an existing order, and no row of an existing
\* order is ever removed.
C29_AdvanceChangesOnlyStatus ==
    [][\A o \in DOMAIN db.orders :
        /\ o \in DOMAIN db'.orders
        /\ db'.orders[o] = [db.orders[o] EXCEPT !.status = db'.orders[o].status]
        /\ o \in DOMAIN db'.order_items /\ db'.order_items[o] = db.order_items[o]
        /\ o \in DOMAIN db'.payments /\ db'.payments[o] = db.payments[o]
        /\ db'.orders[o].status # db.orders[o].status =>
                \E p \in Procs :
                    /\ req[p].kind = "advance" /\ req[p].order_id = o
                    /\ pc[p] = "commit" /\ pc'[p] = "done"
                    /\ resp'[p].code = 200
                    /\ db'.orders[o].status = req[p].status]_vars

\* C29 witness: with two orders committed, an advance of one of them was
\* answered 200 while a placement replayed and another advance was refused.
C29_Witness ==
    \E p, q \in Procs :
        /\ p # q
        /\ req[p].kind = "advance" /\ pc[p] = "done" /\ resp[p].code = 200
        /\ req[q].kind = "place" /\ pc[q] = "done" /\ resp[q].code = 201
        /\ req[p].order_id \in DOMAIN db.orders
        /\ Cardinality(DOMAIN db.orders) >= 2

\* C30: every committed order has exactly one payment row and every payment
\* row belongs to exactly one committed order; the row's amount is the
\* order's total and the value its request sent to the gateway, and it keeps
\* the status code and the body of the gateway's answer; no step changes or
\* removes a committed payment row or adds a second one for an order.
C30_OnePaymentPerOrder ==
    /\ [](/\ \A o \in DOMAIN db.orders :
                Cardinality({y \in DOMAIN db.payments :
                                db.payments[y].order_id = o}) = 1
          /\ \A y \in DOMAIN db.payments :
                LET pay == db.payments[y] IN
                /\ pay.order_id \in DOMAIN db.orders
                /\ pay.amount_cents = db.orders[pay.order_id].total_cents
                /\ \E c \in gatewayCalls :
                        /\ c.proc = pay.order_id
                        /\ c.value = pay.amount_cents
                        /\ c.status_code = pay.response_status_code
                        /\ c.body = pay.response_payload)
    /\ [][\A y \in DOMAIN db.payments :
                /\ y \in DOMAIN db'.payments
                /\ db'.payments[y] = db.payments[y]]_vars

\* C30 witness: an order's payment of 800 is in place after a replay of its
\* token returned that payment and an advance of the order was answered 200.
C30_Witness ==
    \E o \in DOMAIN db.orders, p, q \in Procs :
        /\ db.payments[o].amount_cents = 800
        /\ req[p].kind = "place" /\ pc[p] = "done" /\ resp[p].code = 200
        /\ resp[p].is_replay /\ resp[p].payment_id = db.payments[o].id
        /\ req[q].kind = "advance" /\ req[q].order_id = o
        /\ pc[q] = "done" /\ resp[q].code = 200

\* Request p is a read of an order.
IsGet(p) == req[p].kind = "get"

\* C31: no step, a change of a base price included, changes the items or
\* the total of a committed order, and every read of an order returns, line
\* by line, the unit price and the total that the placement returned when
\* it created the order, whatever the catalog holds at the read.
C31_PricesAreSnapshots ==
    /\ [](\A p \in Procs :
            (IsGet(p) /\ pc[p] = "done" /\ resp[p].code = 200) =>
                LET o == req[p].order_id IN
                /\ resp[o].code = 201
                /\ resp[p].total_cents = resp[o].total_cents
                /\ Len(resp[p].items) = Len(resp[o].items)
                /\ \A i \in 1..Len(resp[p].items) :
                        /\ resp[p].items[i].unit_price_cents =
                                resp[o].items[i].unit_price_cents
                        /\ resp[p].items[i].line_total_cents =
                                resp[o].items[i].quantity
                                    * resp[o].items[i].unit_price_cents)
    /\ [][\A o \in DOMAIN db.orders :
            /\ db'.order_items[o] = db.order_items[o]
            /\ db'.orders[o].total_cents = db.orders[o].total_cents]_vars

\* C31 witness: a read returned 200 with a unit price that is not the price
\* the catalog gave for that line when the read was made.
C31_Witness ==
    \E p \in Procs :
        /\ IsGet(p) /\ pc[p] = "done" /\ resp[p].code = 200
        /\ resp[p].items[1].unit_price_cents #
                loc[p].prior_products[resp[p].items[1].product_id]
                    + Variations[resp[p].items[1].variation_id].price_change_cents
        /\ resp[p].total_cents = db.orders[req[p].order_id].total_cents

\* C32: an advance sent without valid credentials is answered 401, makes no
\* dispatch and leaves no notification, and the step that answers it
\* changes no committed row; an advance that is answered 200 was sent by a
\* manager.
C32_AdvanceNeedsManager ==
    /\ [](\A p \in Procs :
            (IsAdvance(p) /\ pc[p] = "done") =>
                /\ req[p].customer_id \notin DOMAIN Users =>
                        /\ resp[p].code = 401
                        /\ \A c \in dispatchCalls : c.proc # p
                        /\ p \notin DOMAIN db.notifications
                /\ resp[p].code = 200 =>
                        /\ req[p].customer_id \in DOMAIN Users
                        /\ Users[req[p].customer_id] = "manager")
    /\ [][\A p \in Procs :
            (/\ pc[p] # "done" /\ pc'[p] = "done" /\ req'[p].kind = "advance"
             /\ req'[p].customer_id \notin DOMAIN Users) => db' = db]_vars

\* The answer to a read of an order id that has no row.
OrderNotFound ==
    [NoResponse EXCEPT !.code = 404, !.detail = "Order not found"]

\* C33: a read by a customer of an order placed as another customer gets the
\* same answer, field by field, as a read of an order id that has no row:
\* 404 'Order not found'; a customer's read of an own order and a manager's
\* read of any order are answered 200 with that order.
C33_ForeignOrderLooksMissing ==
    \A p \in Procs :
        (IsGet(p) /\ pc[p] = "done" /\ req[p].customer_id \in DOMAIN Users) =>
            LET user == req[p].customer_id
                o == req[p].order_id
            IN IF o \notin DOMAIN db.orders
               THEN resp[p] = OrderNotFound
               ELSE IF /\ Users[user] = "customer"
                       /\ db.orders[o].customer_id # user
               THEN resp[p] = OrderNotFound
               ELSE /\ resp[p].code = 200
                    /\ resp[p].order_id = o
                    /\ resp[p].total_cents = db.orders[o].total_cents
                    /\ resp[p].status = db.orders[o].status

\* C33 witness: bob read alice's order and an order id without a row and got
\* twice the same 404; the manager read alice's order and got it.
C33_Witness ==
    \E p, q, m \in Procs :
        /\ IsGet(p) /\ IsGet(q) /\ IsGet(m)
        /\ req[p].customer_id = "bob" /\ req[p].order_id \in DOMAIN db.orders
        /\ db.orders[req[p].order_id].customer_id = "alice"
        /\ req[q].customer_id = "bob" /\ req[q].order_id \notin DOMAIN db.orders
        /\ resp[p].code = 404 /\ resp[p] = resp[q]
        /\ req[m].customer_id = "morgan" /\ req[m].order_id = req[p].order_id
        /\ resp[m].code = 200

\* C34: a POST to the gateway that raises or times out is taken as the
\* answer 500; the step that receives it ends the placement, which commits
\* no order, payment or record and is not answered with an order.  A POST
\* to the notification service that raises or times out is taken as the
\* answer 500 and stored as the notification of that advance, which is
\* answered 200; its commit leaves the status of the order as the handler
\* had written it before the dispatch.
C34_TimeoutsAreFailedCalls ==
    /\ [](/\ \A c \in gatewayCalls :
                c.kind = "exception" =>
                    /\ c.status_code = 500
                    /\ pc[c.proc] = "done"
                    /\ resp[c.proc].code \notin {200, 201}
                    /\ c.proc \notin DOMAIN db.orders
                    /\ c.proc \notin DOMAIN db.order_items
                    /\ c.proc \notin DOMAIN db.payments
                    /\ tx[c.proc] = EmptyDb
          /\ \A c \in dispatchCalls :
                c.kind = "exception" =>
                    /\ c.status_code = 500
                    /\ pc[c.proc] = "done" =>
                            /\ resp[c.proc].code = 200
                            /\ c.proc \in DOMAIN db.notifications
                            /\ db.notifications[c.proc].response_status_code = 500
                            /\ db.notifications[c.proc].order_id = c.order_id)
    /\ [][\A p \in Procs :
            (/\ pc[p] = "commit" /\ pc'[p] = "done" /\ req[p].kind = "advance"
             /\ \E c \in dispatchCalls : c.proc = p /\ c.kind = "exception") =>
                LET o == req[p].order_id IN
                /\ db'.orders[o].status = (tx[p].orders @@ db.orders)[o].status
                /\ resp'[p].status = db'.orders[o].status]_vars

\* C34 witness: one placement committed its order, another one met a gateway
\* that raised, and an advance of the order met a notification service that
\* raised and was answered 200.
C34_Witness ==
    \E p, q, a \in Procs :
        /\ IsPlacement(p) /\ resp[p].code = 201
        /\ IsPlacement(q) /\ pc[q] = "done"
        /\ \E c \in gatewayCalls : c.proc = q /\ c.kind = "exception"
        /\ IsAdvance(a) /\ req[a].order_id = p /\ resp[a].code = 200
        /\ \E c \in dispatchCalls : c.proc = a /\ c.kind = "exception"

\* C35: for every committed order whose request declared a total, the
\* order's total, its payment's amount and the value of every charge the
\* request sent to the gateway are the declared total.
C35_ChargedTotalIsDeclaredTotal ==
    \A o \in DOMAIN db.orders :
        (req[o].kind = "place" /\ req[o].total_cents # {}) =>
            /\ {db.orders[o].total_cents} = req[o].total_cents
            /\ {db.payments[o].amount_cents} = req[o].total_cents
            /\ \A c \in gatewayCalls :
                    c.proc = o => {c.value} = req[o].total_cents

\* C36: a placement that is answered with an order (201, or 200 for a
\* replay) gets an order whose customer is the customer who sent it.
C36_ResponseOrderIsOwn ==
    \A p \in Procs :
        (/\ IsPlacement(p) /\ pc[p] = "done" /\ resp[p].code \in {200, 201}) =>
            /\ resp[p].order_id \in DOMAIN db.orders
            /\ db.orders[resp[p].order_id].customer_id = req[p].customer_id

\* C37: a placement whose token's record is linked to an order when it is
\* looked up, and whose cart is valid and is not the cart of that order, is
\* answered 200 as a replay with that order, its total and its items; the
\* lookup step writes nothing and calls no gateway, and the placement never
\* has a charge, an order or a record of its own.
C37_TokenNotBoundToCart ==
    /\ [][\A p \in Procs :
            (/\ IsPlacement(p) /\ pc[p] = "check" /\ pc'[p] # "check"
             /\ req[p].token # NoToken
             /\ hash_key(req[p].token) \in DOMAIN db.idempotency_keys
             /\ db.idempotency_keys[hash_key(req[p].token)].order_id # NULL) =>
                LET o == db.idempotency_keys[hash_key(req[p].token)].order_id
                IN /\ pc'[p] = "done"
                   /\ resp'[p].code = 200 /\ resp'[p].is_replay
                   /\ resp'[p].order_id = o
                   /\ resp'[p].total_cents = db.orders[o].total_cents
                   /\ resp'[p].items = db.order_items[o]
                   /\ db' = db /\ gatewayCalls' = gatewayCalls]_vars
    /\ [](\A p \in Procs :
            (IsPlacement(p) /\ pc[p] = "done" /\ resp[p].is_replay) =>
                /\ \A c \in gatewayCalls : c.proc # p
                /\ p \notin DOMAIN db.orders
                /\ \A h \in DOMAIN db.idempotency_keys :
                        db.idempotency_keys[h].order_id # p)

\* C37 witness: a placement of the latte cart was answered as a replay of
\* the order of the espresso cart, with that order's total.
C37_Witness ==
    \E p \in Procs :
        /\ IsPlacement(p) /\ pc[p] = "done" /\ resp[p].is_replay
        /\ req[p].items = LatteCart
        /\ req[resp[p].order_id].items = EspressoCart
        /\ resp[p].total_cents = 800
        /\ resp[p].items[1].product_id = "espresso"

\* C38: every committed idempotency record that is linked to an order
\* carries the id of the payment row of that order: never NULL, never the
\* payment of another order.
C38_RecordNamesItsPayment ==
    \A h \in DOMAIN db.idempotency_keys :
        LET row == db.idempotency_keys[h] IN
        row.order_id # NULL =>
            /\ row.payment_id # NULL
            /\ row.order_id \in DOMAIN db.payments
            /\ row.payment_id = db.payments[row.order_id].id
            /\ db.payments[row.order_id].order_id = row.order_id

\* Every advance that has started gets its answer, and with it its
\* transaction, and the row lock it may hold, has ended.
AdvancesComplete ==
    \A p \in Procs :
        (IsAdvance(p) /\ pc[p] # "done") ~>
            (pc[p] = "done" /\ ~HoldsOrderLock(p, req[p].order_id))

\* Three advances of an order in waiting, to preparation, to ready and to
\* delivered, each started after the one before it was answered, leave the
\* order in delivered.
ThreeAdvancesDeliver ==
    \A p, q, r \in Procs :
        (/\ p < q /\ q < r
         /\ IsAdvance(p) /\ IsAdvance(q) /\ IsAdvance(r)
         /\ pc[p] = "done" /\ pc[q] = "done" /\ pc[r] = "done"
         /\ req[q].order_id = req[p].order_id
         /\ req[r].order_id = req[p].order_id
         /\ loc[p].prior_status = "waiting"
         /\ req[p].status = "preparation" /\ req[q].status = "ready"
         /\ req[r].status = "delivered"
         /\ loc[q].overlaps = {} /\ loc[r].overlaps = {}) =>
            db.orders[req[p].order_id].status = "delivered"

\* C39: every advance eventually completes and releases the row lock of its
\* order, whatever the validation and the dispatch give, and an order in
\* waiting is in delivered after three successive valid advances.
C39_AdvancesTerminateAndDeliver ==
    AdvancesComplete /\ []ThreeAdvancesDeliver

\* C40: for every status the table VALID_TRANSITIONS and the method
\* next_allowed give the same answer, the immediate successor of the status
\* and nothing for delivered; so for every order the two agree on its
\* status, and an advance that was validated against a status was accepted
\* exactly when its target is what next_allowed gives for that status.
C40_EncodingsAgree ==
    /\ \A s \in OrderStatus :
            /\ VALID_TRANSITIONS(s) = next_allowed(s)
            /\ next_allowed(s) =
                    IF s = "delivered" THEN {}
                    ELSE {t \in OrderStatus : Rank(t) = Rank(s) + 1}
    /\ \A o \in DOMAIN db.orders :
            VALID_TRANSITIONS(db.orders[o].status)
                = next_allowed(db.orders[o].status)
    /\ \A p \in Procs :
            (/\ IsAdvance(p) /\ pc[p] = "done"
             /\ loc[p].order_status \in OrderStatus) =>
                (resp[p].code = 200
                    <=> {req[p].status} = next_allowed(loc[p].order_status))

\* C40 witness: on an order in delivered an advance to waiting was refused,
\* and one to delivered too.
C40_Witness ==
    \E p, q \in Procs :
        /\ IsAdvance(p) /\ pc[p] = "done" /\ IsAdvance(q) /\ pc[q] = "done"
        /\ loc[p].order_status = "delivered" /\ req[p].status = "waiting"
        /\ resp[p].code = 400
        /\ loc[q].order_status = "delivered" /\ req[q].status = "delivered"
        /\ resp[q].code = 400

====
